---- MODULE Spec2Model ----
(***************************************************************************)
(* Model of the signal engine of Project_GCE_3                             *)
(* (src/main/services/signal_engine.py): the rule lexer and the            *)
(* recursive-descent parser, working on lines of characters, the           *)
(* SeriesCursor as-of join, the tree-walking evaluator and the per-bar     *)
(* loop of generate_signals_for_system.                                    *)
(*                                                                         *)
(* A Python str is a sequence of one-character strings; a lexer position   *)
(* is the number of characters already consumed (Python's self.i).         *)
(* An Optional value is a record whose k field tells None from a number    *)
(* or a bool; an Optional level is a sequence of length 0 or 1.            *)
(***************************************************************************)
EXTENDS Integers, Sequences, FiniteSets, TLC

\* ------------------------------------------------------------------------
\* Characters
\* ------------------------------------------------------------------------

LowerChars ==
    <<"a","b","c","d","e","f","g","h","i","j","k","l","m",
      "n","o","p","q","r","s","t","u","v","w","x","y","z">>

UpperChars ==
    <<"A","B","C","D","E","F","G","H","I","J","K","L","M",
      "N","O","P","Q","R","S","T","U","V","W","X","Y","Z">>

DigitChars == <<"0","1","2","3","4","5","6","7","8","9">>

Range(f) == {f[x] : x \in DOMAIN f}

IsSpace(c) == c \in {" ", "\t", "\n", "\r"}

IsDigit(c) == c \in Range(DigitChars)

IsAlpha(c) == c \in Range(LowerChars) \cup Range(UpperChars)

IsAlnum(c) == IsAlpha(c) \/ IsDigit(c)

\* str.upper() on one character
UpperChar(c) ==
    IF c \in Range(LowerChars)
    THEN UpperChars[CHOOSE k \in DOMAIN LowerChars : LowerChars[k] = c]
    ELSE c

DigitVal(c) == (CHOOSE k \in DOMAIN DigitChars : DigitChars[k] = c) - 1

\* ------------------------------------------------------------------------
\* Values and AST nodes
\* ------------------------------------------------------------------------

None == [k |-> "none", n |-> 0, d |-> 1]

Int2Val(v) == [k |-> "num", n |-> v, d |-> 1]

Bool2Val(b) == [k |-> "bool", n |-> IF b THEN 1 ELSE 0, d |-> 1]

\* a non-negative decimal n/d with d a power of ten, in lowest such form
RECURSIVE NormDec(_, _)
NormDec(n, d) ==
    IF d > 1 /\ n % 10 = 0 THEN NormDec(n \div 10, d \div 10)
    ELSE [k |-> "num", n |-> n, d |-> d]

\* int(num) of a non-negative float
IntOf(v) == v.n \div v.d

IndicatorRef(name, level, lag) ==
    [t |-> "Ref", name |-> name, level |-> level, lag |-> lag]

Literal(v) == [t |-> "Num", v |-> v]

Compare(left, op, right) ==
    [t |-> "Compare", left |-> left, op |-> op, right |-> right]

Not(expr) == [t |-> "Not", expr |-> expr]

And(left, right) == [t |-> "And", left |-> left, right |-> right]

Or(left, right) == [t |-> "Or", left |-> left, right |-> right]

Rule(cond, action_then, action_else) ==
    [condition |-> cond, action_then |-> action_then, action_else |-> action_else]

NoNode == [t |-> "none"]

\* ------------------------------------------------------------------------
\* Lexer
\* ------------------------------------------------------------------------

_peek(s, i) == IF i < Len(s) THEN s[i + 1] ELSE ""

RECURSIVE _skip_ws(_, _)
_skip_ws(s, i) ==
    IF _peek(s, i) # "" /\ IsSpace(_peek(s, i)) THEN _skip_ws(s, i + 1) ELSE i

StartsWithUpper(s, i, pat) ==
    /\ i + Len(pat) <= Len(s)
    /\ \A k \in 1..Len(pat) : UpperChar(s[i + k]) = pat[k]

\* Lexer.take: the position after pat when the rest starts with pat
\* (case-insensitively), the same position otherwise
take(s, i, pat) ==
    IF StartsWithUpper(s, i, pat)
    THEN [ok |-> TRUE, i |-> i + Len(pat)]
    ELSE [ok |-> FALSE, i |-> i]

RECURSIVE NumberEnd(_, _, _)
NumberEnd(s, i, dot) ==
    LET p == _peek(s, i) IN
    IF p # "" /\ (IsDigit(p) \/ (p = "." /\ ~dot))
    THEN NumberEnd(s, i + 1, dot \/ p = ".")
    ELSE i

\* float() of the digits and the dot in s[j:e]
RECURSIVE DecOf(_, _, _, _, _, _)
DecOf(s, j, e, n, d, dot) ==
    IF j >= e THEN NormDec(n, d)
    ELSE IF s[j + 1] = "." THEN DecOf(s, j + 1, e, n, d, TRUE)
    ELSE DecOf(s, j + 1, e, n * 10 + DigitVal(s[j + 1]),
               IF dot THEN d * 10 ELSE d, dot)

\* Lexer.number: none when no character is consumed; float() raises
\* ValueError on a text without a digit (a lone ".")
number(s, i) ==
    LET e == NumberEnd(s, i, FALSE) IN
    IF e = i THEN [exc |-> "", none |-> TRUE, i |-> i, v |-> None]
    ELSE IF \A q \in (i + 1)..e : s[q] = "."
    THEN [exc |-> "ValueError", none |-> TRUE, i |-> e, v |-> None]
    ELSE [exc |-> "", none |-> FALSE, i |-> e, v |-> DecOf(s, i, e, 0, 1, FALSE)]

RECURSIVE IdentEnd(_, _)
IdentEnd(s, i) ==
    LET p == _peek(s, i) IN
    IF p # "" /\ (IsAlnum(p) \/ p = "_") THEN IdentEnd(s, i + 1) ELSE i

\* Lexer.ident: none unless the next character is a letter or "_"
ident(s, i) ==
    LET p == _peek(s, i) IN
    IF ~(IsAlpha(p) \/ p = "_")
    THEN [none |-> TRUE, i |-> i, name |-> <<>>]
    ELSE [none |-> FALSE, i |-> IdentEnd(s, i),
          name |-> SubSeq(s, i + 1, IdentEnd(s, i))]

\* ------------------------------------------------------------------------
\* Parser
\* ------------------------------------------------------------------------

\* a parser result: exc = "" and the position after the construct with its
\* node, or the exception that was raised
Ok(i, node) == [exc |-> "", msg |-> "", i |-> i, node |-> node]

Raise(exc, msg) == [exc |-> exc, msg |-> msg, i |-> 0, node |-> NoNode]

ParseError(msg) == Raise("ParseError", msg)

W_IF == <<"I","F">>
W_THEN == <<"T","H","E","N">>
W_ELSE == <<"E","L","S","E">>
W_BUY == <<"B","U","Y">>
W_SELL == <<"S","E","L","L">>
W_NONE == <<"N","O","N","E">>
W_OR == <<"O","R">>
W_AND == <<"A","N","D">>
W_NOT == <<"N","O","T">>
W_CHANGED == <<"C","H","A","N","G","E","D">>
W_PREV == <<"P","R","E","V">>
W_L == <<"L">>

\* the one element of a singleton set.  Only({body : x \in {e}}) is body
\* with x naming the value of e, which is computed once, as an assignment
\* to a local variable computes its right-hand side once
Only(S) == CHOOSE x \in S : TRUE

\* ParseLagBracket leaving the lag bracket unread
ParseLagBracket_Unread(s, i, name, level) == Ok(i - 1, IndicatorRef(name, level, 0))

\* the optional [n] after a level bracket, entered after the "[" at i - 1
ParseLagBracket(s, i, name, level) ==
    Only({Only({
        IF num.exc # "" THEN Raise(num.exc, "")
        ELSE IF num.none THEN ParseError("Expected lag number in []")
        ELSE IF _peek(s, i2) # "]" THEN ParseError("Expected ] for lag")
        ELSE Ok(i2 + 1, IndicatorRef(name, level, IntOf(num.v)))
      : i2 \in {_skip_ws(s, num.i)}})
      : num \in {number(s, _skip_ws(s, i))}})

\* the [Lk] bracket, entered after the "[" at i - 1
ParseLevelBracket(s, i, name) ==
    Only({Only({Only({Only({
        IF ~tk.ok THEN ParseError("Expected Lx in first []")
        ELSE IF num.exc # "" THEN Raise(num.exc, "")
        ELSE IF num.none THEN ParseError("Expected level number after L")
        ELSE IF _peek(s, i2) # "]" THEN ParseError("Expected ]")
        ELSE IF _peek(s, i3) = "["
             THEN ParseLagBracket(s, i3 + 1, name, <<IntOf(num.v)>>)
             ELSE Ok(i3, IndicatorRef(name, <<IntOf(num.v)>>, 0))
      : i3 \in {_skip_ws(s, i2 + 1)}})
      : i2 \in {_skip_ws(s, num.i)}})
      : num \in {number(s, tk.i)}})
      : tk \in {take(s, _skip_ws(s, i), W_L)}})

parse_value(s, i0) ==
    Only({Only({Only({Only({
        IF num.exc # "" THEN Raise(num.exc, "")
        ELSE IF ~num.none THEN Ok(num.i, Literal(num.v))
        ELSE IF id.none THEN ParseError("Expected value")
        ELSE IF _peek(s, i1) = "[" THEN ParseLevelBracket(s, i1 + 1, id.name)
        ELSE Ok(i1, IndicatorRef(id.name, <<>>, 0))
      : i1 \in {_skip_ws(s, id.i)}})
      : id \in {ident(s, i)}})
      : num \in {number(s, i)}})
      : i \in {_skip_ws(s, i0)}})

CmpOps == << <<">","=">>, <<"<","=">>, <<"!","=">>, <<"=","=">>, <<">">>, <<"<">> >>

\* the first candidate operator, in the code's order, that the text starts with
RECURSIVE TakeOp(_, _, _)
TakeOp(s, i, k) ==
    IF k > Len(CmpOps) THEN [ok |-> FALSE, i |-> i, op |-> <<>>]
    ELSE IF take(s, i, CmpOps[k]).ok
         THEN [ok |-> TRUE, i |-> i + Len(CmpOps[k]), op |-> CmpOps[k]]
         ELSE TakeOp(s, i, k + 1)

\* value cmp_op value, from position i
ParseComparison(s, i) ==
    Only({Only({Only({Only({
        IF left.exc # "" THEN left
        ELSE IF ~op.ok THEN ParseError("Expected comparison operator")
        ELSE IF right.exc # "" THEN right
        ELSE Ok(right.i, Compare(left.node, op.op, right.node))
      : right \in {parse_value(s, op.i)}})
      : op \in {TakeOp(s, i1, 1)}})
      : i1 \in {_skip_ws(s, left.i)}})
      : left \in {parse_value(s, i)}})

\* CHANGED( was consumed up to i
ParseChanged(s, i) ==
    Only({Only({
        IF ref.exc # "" THEN ref
        ELSE IF _peek(s, i1) # ")" THEN ParseError("Expected ) in changed()")
        ELSE IF ref.node.t # "Ref" THEN Raise("AttributeError", "name")
        ELSE Ok(i1 + 1,
                Compare(IndicatorRef(ref.node.name, ref.node.level,
                                     IF ref.node.lag > 1 THEN ref.node.lag ELSE 1),
                        <<"!","=">>,
                        IndicatorRef(ref.node.name, ref.node.level, 0)))
      : i1 \in {_skip_ws(s, ref.i)}})
      : ref \in {parse_value(s, i)}})

\* PREV( was consumed up to i
ParsePrev(s, i) ==
    Only({Only({Only({Only({
        LET comma == _peek(s, i1) = ","
            lag == IF comma THEN IntOf(num.v) ELSE 1
        IN  IF ref.exc # "" THEN ref
            ELSE IF comma /\ num.exc # "" THEN Raise(num.exc, "")
            ELSE IF comma /\ num.none THEN ParseError("Expected number for prev lag")
            ELSE IF _peek(s, i2) # ")" THEN ParseError("Expected ) in prev()")
            ELSE IF ref.node.t # "Ref" THEN Raise("AttributeError", "name")
            ELSE Ok(i2 + 1, IndicatorRef(ref.node.name, ref.node.level, lag))
      : i2 \in {IF _peek(s, i1) = "," THEN _skip_ws(s, num.i) ELSE _skip_ws(s, i1)}})
      : num \in {number(s, _skip_ws(s, i1 + 1))}})
      : i1 \in {_skip_ws(s, ref.i)}})
      : ref \in {parse_value(s, i)}})

RECURSIVE parse_expr(_, _), parse_term(_, _), parse_factor(_, _),
          ExprLoop(_, _), TermLoop(_, _)

\* Not(parse_factor(lx)), f being the outcome of the inner parse_factor
NotOf(f) == IF f.exc # "" THEN f ELSE Ok(f.i, Not(f.node))

\* the closing ")" after the outcome e of the inner parse_expr
CloseParen(s, e) ==
    Only({
        IF e.exc # "" THEN e
        ELSE IF _peek(s, i1) # ")" THEN ParseError("Expected )")
        ELSE Ok(i1 + 1, e.node)
      : i1 \in {_skip_ws(s, e.i)}})

parse_factor(s, i0) ==
    Only({Only({Only({Only({
        IF tn.ok THEN Only({NotOf(f) : f \in {parse_factor(s, tn.i)}})
        ELSE IF _peek(s, i) = "("
        THEN Only({CloseParen(s, e) : e \in {parse_expr(s, i + 1)}})
        ELSE IF tc.ok /\ _peek(s, tc.i) = "(" THEN ParseChanged(s, tc.i + 1)
        ELSE IF tp.ok /\ _peek(s, tp.i) = "(" THEN ParsePrev(s, tp.i + 1)
        ELSE ParseComparison(s, tp.i)
      : tp \in {take(s, tc.i, W_PREV)}})
      : tc \in {take(s, i, W_CHANGED)}})
      : tn \in {take(s, i, W_NOT)}})
      : i \in {_skip_ws(s, i0)}})

\* node = And(node, rhs), rhs being the outcome of parse_factor
AndOf(node, rhs) == IF rhs.exc # "" THEN rhs ELSE Ok(rhs.i, And(node, rhs.node))

\* while lx.take('AND'): rhs = parse_factor(lx); node = And(node, rhs),
\* from the outcome f of the factors parsed so far
TermLoop(s, f) ==
    Only({Only({
        IF f.exc # "" THEN f
        ELSE IF ~tk.ok THEN Ok(i, f.node)
        ELSE Only({Only({TermLoop(s, f2) : f2 \in {AndOf(f.node, rhs)}})
                   : rhs \in {parse_factor(s, tk.i)}})
      : tk \in {take(s, i, W_AND)}})
      : i \in {_skip_ws(s, f.i)}})

parse_term(s, i0) ==
    Only({TermLoop(s, f) : f \in {parse_factor(s, _skip_ws(s, i0))}})

\* the loop of parse_expr taking OR and AND alike, each followed by one factor
ExprLoop_Flat(s, t) ==
    Only({Only({Only({
        IF t.exc # "" THEN t
        ELSE IF to.ok
        THEN Only({Only({ExprLoop(s, t2)
                         : t2 \in {IF rhs.exc # "" THEN rhs
                                   ELSE Ok(rhs.i, Or(t.node, rhs.node))}})
                   : rhs \in {parse_factor(s, to.i)}})
        ELSE IF ta.ok
        THEN Only({Only({ExprLoop(s, t2)
                         : t2 \in {IF rhs.exc # "" THEN rhs
                                   ELSE Ok(rhs.i, And(t.node, rhs.node))}})
                   : rhs \in {parse_factor(s, ta.i)}})
        ELSE Ok(i, t.node)
      : ta \in {take(s, i, W_AND)}})
      : to \in {take(s, i, W_OR)}})
      : i \in {_skip_ws(s, t.i)}})

\* node = Or(node, rhs), rhs being the outcome of parse_term
OrOf(node, rhs) == IF rhs.exc # "" THEN rhs ELSE Ok(rhs.i, Or(node, rhs.node))

\* while lx.take('OR'): rhs = parse_term(lx); node = Or(node, rhs),
\* from the outcome t of the terms parsed so far
ExprLoop(s, t) ==
    Only({Only({
        IF t.exc # "" THEN t
        ELSE IF ~tk.ok THEN Ok(i, t.node)
        ELSE Only({Only({ExprLoop(s, t2) : t2 \in {OrOf(t.node, rhs)}})
                   : rhs \in {parse_term(s, tk.i)}})
      : tk \in {take(s, i, W_OR)}})
      : i \in {_skip_ws(s, t.i)}})

parse_expr(s, i0) ==
    Only({ExprLoop(s, t) : t \in {parse_term(s, _skip_ws(s, i0))}})

\* the result carries the action in the act field
parse_action(s, i0) ==
    Only({
        IF take(s, i, W_BUY).ok THEN [exc |-> "", msg |-> "", i |-> i + 3, act |-> "BUY"]
        ELSE IF take(s, i, W_SELL).ok THEN [exc |-> "", msg |-> "", i |-> i + 4, act |-> "SELL"]
        ELSE IF take(s, i, W_NONE).ok THEN [exc |-> "", msg |-> "", i |-> i + 4, act |-> "NONE"]
        ELSE [exc |-> "ParseError", msg |-> "Unknown action (expected BUY/SELL/NONE)",
              i |-> 0, act |-> ""]
      : i \in {_skip_ws(s, i0)}})

NoRule == Rule(NoNode, "", "None")

\* parse_rule after the condition: THEN action (ELSE action)?, cond being
\* the outcome of parse_expr
RuleAfterCondition(line, cond) ==
    Only({Only({Only({Only({
        IF cond.exc # "" THEN [exc |-> cond.exc, msg |-> cond.msg, rule |-> NoRule]
        ELSE IF ~tth.ok
        THEN [exc |-> "ParseError", msg |-> "Expected THEN", rule |-> NoRule]
        ELSE IF a1.exc # "" THEN [exc |-> a1.exc, msg |-> a1.msg, rule |-> NoRule]
        ELSE IF ~tel.ok
        THEN [exc |-> "", msg |-> "", rule |-> Rule(cond.node, a1.act, "None")]
        ELSE IF a2.exc # "" THEN [exc |-> a2.exc, msg |-> a2.msg, rule |-> NoRule]
        ELSE [exc |-> "", msg |-> "", rule |-> Rule(cond.node, a1.act, a2.act)]
      : a2 \in {parse_action(line, tel.i)}})
      : tel \in {take(line, _skip_ws(line, a1.i), W_ELSE)}})
      : a1 \in {parse_action(line, tth.i)}})
      : tth \in {take(line, _skip_ws(line, cond.i), W_THEN)}})

\* parse_rule: exc = "" and the Rule, or the exception raised; action_else
\* is "None" (Python None) when the line has no ELSE
parse_rule(line) ==
    Only({
        IF ~tif.ok
        THEN [exc |-> "ParseError", msg |-> "Rule must start with IF", rule |-> NoRule]
        ELSE Only({RuleAfterCondition(line, cond) : cond \in {parse_expr(line, tif.i)}})
      : tif \in {take(line, _skip_ws(line, 0), W_IF)}})

\* str.splitlines(): the lines of text, cut at "\n", "\r" and "\r\n"; a line
\* starts at the first character and after every line end that is followed
\* by more text
LineStarts(text) ==
    {k \in 1..Len(text) :
        \/ k = 1
        \/ text[k - 1] = "\n"
        \/ text[k - 1] = "\r" /\ text[k] # "\n"}

LineFrom(text, st) ==
    LET ends == {e \in st..Len(text) : text[e] \in {"\n", "\r"}}
        e == IF ends = {} THEN Len(text) + 1
             ELSE CHOOSE x \in ends : \A y \in ends : x <= y
    IN  SubSeq(text, st, e - 1)

SplitLines(text) ==
    LET starts == LineStarts(text)
        kth(k) == CHOOSE st \in starts : Cardinality({x \in starts : x < st}) = k - 1
    IN  [k \in 1..Cardinality(starts) |-> LineFrom(text, kth(k))]

RECURSIVE LStrip(_)
LStrip(s) == IF s # <<>> /\ IsSpace(Head(s)) THEN LStrip(Tail(s)) ELSE s

RECURSIVE RStrip(_)
RStrip(s) ==
    IF s # <<>> /\ IsSpace(s[Len(s)]) THEN RStrip(SubSeq(s, 1, Len(s) - 1)) ELSE s

\* str.strip()
Strip(s) == RStrip(LStrip(s))

\* [ln.strip() for ln in text.splitlines() if ln.strip()]
NonBlank(ls) ==
    LET F[k \in 0..Len(ls)] ==
            IF k = 0 THEN <<>>
            ELSE IF Strip(ls[k]) = <<>> THEN F[k - 1]
            ELSE Append(F[k - 1], Strip(ls[k]))
    IN  F[Len(ls)]

RuleLines(text) == NonBlank(SplitLines(text))

\* [parse_rule(line) for line in lines]: the first exception leaves the
\* comprehension, and the list built so far is dropped with it
RECURSIVE ParseLines(_, _, _)
\* the comprehension after parse_rule gave r for line k
CollectRule(lines, k, acc, r) ==
    IF r.exc # "" THEN [exc |-> r.exc, msg |-> r.msg, rules |-> <<>>]
    ELSE Only({ParseLines(lines, k + 1, acc2) : acc2 \in {Append(acc, r.rule)}})

ParseLines(lines, k, acc) ==
    IF k > Len(lines) THEN [exc |-> "", msg |-> "", rules |-> acc]
    ELSE Only({CollectRule(lines, k, acc, r) :
                 r \in {Only({parse_rule(line) : line \in {lines[k]}})}})

parse_rules(text) ==
    Only({ParseLines(lines, 1, <<>>) : lines \in {RuleLines(text)}})

\* ------------------------------------------------------------------------
\* str(rule): the dataclass repr, as a sequence of text pieces
\* ------------------------------------------------------------------------

RECURSIVE IntStr(_)
IntStr(n) ==
    IF n < 10 THEN <<DigitChars[n + 1]>>
    ELSE Append(IntStr(n \div 10), DigitChars[(n % 10) + 1])

\* the digits of f, left-padded with zeros to the width of d - 1
RECURSIVE FracStr(_, _)
FracStr(f, d) ==
    IF d <= 1 THEN <<>>
    ELSE Append(FracStr(f \div 10, d \div 10), DigitChars[(f % 10) + 1])

\* repr() of a non-negative float n/d
FloatStr(v) ==
    IntStr(v.n \div v.d) \o <<".">> \o
    (IF v.d = 1 THEN <<"0">> ELSE FracStr(v.n % v.d, v.d))

RECURSIVE Repr(_)
Repr(node) ==
    CASE node.t = "Ref" ->
            <<"IndicatorRef(name='">> \o node.name \o <<"', level=">> \o
            (IF node.level = <<>> THEN <<"None">> ELSE IntStr(node.level[1])) \o
            <<", lag=">> \o IntStr(node.lag) \o <<")">>
      [] node.t = "Num" -> FloatStr(node.v)
      [] node.t = "Compare" ->
            <<"Compare(left=">> \o Repr(node.left) \o <<", op='">> \o node.op \o
            <<"', right=">> \o Repr(node.right) \o <<")">>
      [] node.t = "Not" -> <<"Not(expr=">> \o Repr(node.expr) \o <<")">>
      [] node.t = "And" ->
            <<"And(left=">> \o Repr(node.left) \o <<", right=">> \o
            Repr(node.right) \o <<")">>
      [] node.t = "Or" ->
            <<"Or(left=">> \o Repr(node.left) \o <<", right=">> \o
            Repr(node.right) \o <<")">>
      [] OTHER -> <<"?">>

RuleStr(r) ==
    <<"Rule(condition=">> \o Repr(r.condition) \o
    <<", action_then='", r.action_then, "', action_else=">> \o
    (IF r.action_else = "None" THEN <<"None">> ELSE <<"'", r.action_else, "'">>) \o
    <<")">>

\* ------------------------------------------------------------------------
\* Evaluation
\* ------------------------------------------------------------------------

\* SeriesCursor(times, values): idx starts at -1
SeriesCursor(times, values) == [times |-> times, values |-> values, idx |-> -1]

\* advance_to placing the cursor by a search from the start of the series
advance_to_seek(cur, t) ==
    [cur EXCEPT !.idx =
        (CHOOSE n \in 0..Len(cur.times) :
            /\ \A k \in 1..n : cur.times[k] <= t
            /\ n = Len(cur.times) \/ cur.times[n + 1] > t) - 1]

\* advance_to stopping before an entry stamped exactly t
RECURSIVE advance_to_strict(_, _)
advance_to_strict(cur, t) ==
    IF cur.idx + 1 < Len(cur.times) /\ cur.times[cur.idx + 2] < t
    THEN advance_to_strict([cur EXCEPT !.idx = cur.idx + 1], t)
    ELSE cur

\* SeriesCursor.advance_to: the cursor after the while loop
RECURSIVE advance_to(_, _)
advance_to(cur, t) ==
    IF cur.idx + 1 < Len(cur.times) /\ cur.times[cur.idx + 2] <= t
    THEN advance_to([cur EXCEPT !.idx = cur.idx + 1], t)
    ELSE cur

\* value reading the first entry when the lag reaches before it
value_clamped(cur, lag) ==
    LET i == IF cur.idx - lag < 0 THEN 0 ELSE cur.idx - lag IN
    IF i >= Len(cur.values) THEN None ELSE cur.values[i + 1]

\* value with the lag counted forwards
value_ahead(cur, lag) ==
    LET i == cur.idx + lag IN
    IF i < 0 \/ i >= Len(cur.values) THEN None ELSE cur.values[i + 1]

\* SeriesCursor.value
value(cur, lag) ==
    LET i == cur.idx - lag IN
    IF i < 0 \/ i >= Len(cur.values) THEN None ELSE cur.values[i + 1]

\* the (name, level) pairs that visit() adds for one node
RECURSIVE visit(_)
visit(node) ==
    CASE node.t = "Ref" -> {<<node.name, node.level>>}
      [] node.t \in {"And", "Or", "Compare"} -> visit(node.left) \cup visit(node.right)
      [] node.t = "Not" -> visit(node.expr)
      [] OTHER -> {}

_collect_requirements(rules) ==
    UNION {visit(rules[k].condition) : k \in DOMAIN rules}

\* "level or base_level" of an optional level
LevelOr(level, base_level) ==
    IF level = <<>> \/ level[1] = 0 THEN base_level ELSE level[1]

\* bool(v) of a Python value
Truthy(v) ==
    CASE v.k = "none" -> FALSE
      [] v.k = "bool" -> v.n = 1
      [] OTHER -> v.n # 0

\* l op r on two numbers n/d
CompareNums(l, op, r) ==
    LET a == l.n * r.d
        b == r.n * l.d
    IN  CASE op = <<"=","=">> -> a = b
          [] op = <<"!","=">> -> a # b
          [] op = <<">">> -> a > b
          [] op = <<"<">> -> a < b
          [] op = <<">","=">> -> a >= b
          [] op = <<"<","=">> -> a <= b
          [] OTHER -> FALSE

TypeError == [k |-> "TypeError", n |-> 0, d |-> 1]

Raises(v) == v.k = "TypeError"

\* Python's "l op r" on operands that are None or numbers: None supports
\* == and != only
PyCompare(l, op, r) ==
    IF l = None \/ r = None
    THEN CASE op = <<"=","=">> -> Bool2Val(l = r)
           [] op = <<"!","=">> -> Bool2Val(l # r)
           [] OTHER -> TypeError
    ELSE Bool2Val(CompareNums(l, op, r))

\* CompareVals without the test for None
CompareVals_NoNoneCheck(l, op, r) == PyCompare(l, op, r)

\* the Compare branch of _eval once both operands are evaluated
CompareVals(l, op, r) ==
    IF l = None \/ r = None THEN Bool2Val(FALSE) ELSE PyCompare(l, op, r)

\* env_get reading the base history one position too far back
env_get_OneBack(base_level, base_hist, series, name, level, lag) ==
    LET lvl == LevelOr(level, base_level) IN
    IF lvl = base_level
    THEN IF name \notin DOMAIN base_hist THEN None
         ELSE LET hist == base_hist[name]
                  i == Len(hist) - 2 - lag
              IN  IF i < 0 \/ i >= Len(hist) THEN None ELSE hist[i + 1]
    ELSE IF <<name, lvl>> \notin DOMAIN series THEN None
         ELSE value(series[<<name, lvl>>], lag)

\* env_get of a run with the given base level, base histories and cursors
env_get(base_level, base_hist, series, name, level, lag) ==
    LET lvl == LevelOr(level, base_level) IN
    IF lvl = base_level
    THEN IF name \notin DOMAIN base_hist THEN None
         ELSE LET hist == base_hist[name]
                  i == Len(hist) - 1 - lag
              IN  IF i < 0 \/ i >= Len(hist) THEN None ELSE hist[i + 1]
    ELSE IF <<name, lvl>> \notin DOMAIN series THEN None
         ELSE value(series[<<name, lvl>>], lag)

\* not bool(v) with the negation left out
NotVal_Same(v) == IF Raises(v) THEN v ELSE Bool2Val(Truthy(v))

\* not bool(v)
NotVal(v) == IF Raises(v) THEN v ELSE Bool2Val(~Truthy(v))

\* bool(l) and bool(r): r is evaluated only when l is true
AndVals(l, r) ==
    IF Raises(l) THEN l
    ELSE IF ~Truthy(l) THEN Bool2Val(FALSE)
    ELSE IF Raises(r) THEN r
    ELSE Bool2Val(Truthy(r))

\* bool(l) or bool(r): r is evaluated only when l is false
OrVals(l, r) ==
    IF Raises(l) THEN l
    ELSE IF Truthy(l) THEN Bool2Val(TRUE)
    ELSE IF Raises(r) THEN r
    ELSE Bool2Val(Truthy(r))

\* the Compare branch: both operands are evaluated first
CompareEval(l, op, r) ==
    IF Raises(l) THEN l
    ELSE IF Raises(r) THEN r
    ELSE CompareVals(l, op, r)

\* _eval(node, env_get), env_get being the closure over the run's state; an
\* exception raised below a node leaves through it
RECURSIVE _eval(_, _, _, _)
_eval(node, base_level, base_hist, series) ==
    CASE node.t = "Ref" ->
            env_get(base_level, base_hist, series, node.name, node.level, node.lag)
      [] node.t = "Num" -> node.v
      [] node.t = "Not" -> NotVal(_eval(node.expr, base_level, base_hist, series))
      [] node.t = "And" ->
            AndVals(_eval(node.left, base_level, base_hist, series),
                    _eval(node.right, base_level, base_hist, series))
      [] node.t = "Or" ->
            OrVals(_eval(node.left, base_level, base_hist, series),
                   _eval(node.right, base_level, base_hist, series))
      [] node.t = "Compare" ->
            CompareEval(_eval(node.left, base_level, base_hist, series),
                        node.op,
                        _eval(node.right, base_level, base_hist, series))
      [] OTHER -> Bool2Val(FALSE)

\* ------------------------------------------------------------------------
\* Rule lines and rule-set texts used as inputs
\* ------------------------------------------------------------------------

\* IF X > 0 THEN BUY ELSE SELL
Ln_GtElse ==
    <<"I","F"," ","X"," ",">"," ","0"," ","T","H","E","N"," ","B","U","Y",
      " ","E","L","S","E"," ","S","E","L","L">>

\* IF CHANGED(X) THEN SELL
Ln_Changed ==
    <<"I","F"," ","C","H","A","N","G","E","D","(","X",")"," ","T","H","E",
      "N"," ","S","E","L","L">>

\* IF PREV(X,1) != X THEN SELL
Ln_PrevNeq ==
    <<"I","F"," ","P","R","E","V","(","X",",","1",")"," ","!","="," ","X",
      " ","T","H","E","N"," ","S","E","L","L">>

\* IF X[L1][1] != X THEN SELL
Ln_Lag1Neq ==
    <<"I","F"," ","X","[","L","1","]","[","1","]"," ","!","="," ","X"," ",
      "T","H","E","N"," ","S","E","L","L">>

\* IF X[L2] >= 1 THEN BUY
Ln_L2Ge ==
    <<"I","F"," ","X","[","L","2","]"," ",">","="," ","1"," ","T","H","E",
      "N"," ","B","U","Y">>

\* IF NOT X[L2][1] == 1 AND Y != 0 THEN SELL ELSE NONE
Ln_L2Lag ==
    <<"I","F"," ","N","O","T"," ","X","[","L","2","]","[","1","]"," ","=",
      "="," ","1"," ","A","N","D"," ","Y"," ","!","="," ","0"," ","T","H",
      "E","N"," ","S","E","L","L"," ","E","L","S","E"," ","N","O","N","E">>

\* if Y < 1 or X[L1] <= 0.5 then buy
Ln_YOrX ==
    <<"i","f"," ","Y"," ","<"," ","1"," ","o","r"," ","X","[","L","1","]",
      " ","<","="," ","0",".","5"," ","t","h","e","n"," ","b","u","y">>

\*  IF PREV(X[L2], 2) THEN SELL ELSE BUY
Ln_PrevL2 ==
    <<" ","I","F"," ","P","R","E","V","(","X","[","L","2","]",","," ","2",
      ")"," ","T","H","E","N"," ","S","E","L","L"," ","E","L","S","E"," ",
      "B","U","Y">>

\* IF X > 0 BUY
Ln_NoThen ==
    <<"I","F"," ","X"," ",">"," ","0"," ","B","U","Y">>

\* IF . > 1 THEN BUY
Ln_Dot ==
    <<"I","F"," ","."," ",">"," ","1"," ","T","H","E","N"," ","B","U","Y">>

\*  \t
Ln_Blank ==
    <<" ","\t">>

NL == <<"\n">>

NameX == <<"X">>

NameY == <<"Y">>

Names == {NameX, NameY}

Levels == {1, 2}

\* rule-set texts (settings.signal_logic) of the evaluation runs
Txt_X == Ln_GtElse \o NL \o Ln_Changed \o NL \o Ln_Lag1Neq \o NL \o NL \o Ln_L2Ge \o NL

Txt_XY == Ln_L2Lag \o NL \o Ln_YOrX \o NL \o Ln_PrevL2

Txt_PrevNeq == Ln_Changed \o NL \o Ln_PrevNeq

EngineTexts == {Txt_X, Txt_XY}

\* ------------------------------------------------------------------------
\* Bounds of the explored inputs
\* ------------------------------------------------------------------------

\* at most MaxBars bars per timeframe
MaxBars == 2

\* at most MaxLines lines in a rule-set text given to parse_rules
MaxLines == 2

\* the bar times
Times == {1, 2, 3}

\* the evaluation runs made over the same stored data
RunIds == {1, 2}

\* ------------------------------------------------------------------------
\* State
\* ------------------------------------------------------------------------

VARIABLES
    settings,          \* TradingSystemSignalSettings row of the system, if any
    timeframes,        \* levels that have a TimeFrame row
    definitions,       \* names that have an IndicatorDefinition row
    bars,              \* Bar rows
    indicator_values,  \* IndicatorValue rows
    limit_bars,        \* limit_bars argument of the runs
    run,               \* per run: position and locals of generate_signals_for_system
    text,              \* argument of parse_rules
    parsed,            \* outcome of parse_rules(text)
    signal_events,     \* SignalEvent rows, in the order they were created
    saved,             \* per run: how many of its events the save loop has handled
    cursor,            \* a SeriesCursor driven call by call, and its last call
    monitor,           \* the MT5ConnectionMonitor, its loop threads and its settings
    ingest             \* the DataIngestionWorker's cycle, the DataFile rows and the files

store == <<settings, timeframes, definitions, bars, indicator_values, limit_bars>>

persisted == <<signal_events, saved>>

apart == <<cursor, monitor, ingest>>

vars == <<settings, timeframes, definitions, bars, indicator_values, limit_bars,
          run, text, parsed, signal_events, saved, cursor,
          monitor, ingest>>

\* a Bar row; rows written before the dt_server column existed (the oldest
\* time) have it NULL, bar_importer stores dt_server = dt
BarRow(lvl, t) ==
    [id |-> <<lvl, t>>, timeframe |-> lvl, dt |-> t,
     dt_server |-> IF t = 1 THEN <<>> ELSE <<t>>]

\* an IndicatorValue row; value_int is nullable
ValueRow(bar_id, name, v) == [bar |-> bar_id, indicator |-> name, value_int |-> v]

\* the sets of bar times of one timeframe
BarTimeSets == {S \in SUBSET Times : Cardinality(S) <= MaxBars}

\* what is stored for X on a bar: no row or a row with a value at level 1,
\* a row with NULL or a row with a value at level 2
XChoices(lvl) == IF lvl = 2 THEN {"null", "val"} ELSE {"norow", "val"}

XValue(t) == Int2Val(t % 2)

YValue(t) == Int2Val((t + 1) % 2)

\* the IndicatorValue rows of the bars at times S of level lvl, X stored as
\* xc says and Y stored on every bar after the first time
RowsOf(lvl, S, xc, dfs) ==
    {ValueRow(<<lvl, t>>, NameX, IF xc[t] = "null" THEN None ELSE XValue(t)) :
        t \in {u \in S : NameX \in dfs /\ xc[u] # "norow"}}
    \cup
    {ValueRow(<<lvl, t>>, NameY, YValue(t)) :
        t \in {u \in S : NameY \in dfs /\ u > 1}}

IdleRun ==
    [pc |-> "idle", exc |-> "", rules |-> <<>>, base_level |-> 0,
     base_tf |-> <<>>, names |-> {}, window |-> <<>>, series |-> <<>>,
     base_map |-> <<>>, base_hist |-> <<>>, pos |-> 0, events |-> <<>>,
     log |-> <<>>]

NotParsed == [exc |-> "pending", msg |-> "", rules |-> <<>>]

SettingsRow(exists, logic, base) ==
    [exists |-> exists, signal_logic |-> logic, signal_base_tf_level |-> base]

\* the settings, the timeframes and the limit of the explored systems:
\* complete configurations, explored with every choice of stored values
RichConfigs ==
    {[s |-> SettingsRow(TRUE, lg, b), tfs |-> Levels, limit |-> MaxBars] :
        lg \in EngineTexts, b \in {<<>>, <<2>>}}
    \cup
    {[s |-> SettingsRow(TRUE, lg, <<1>>), tfs |-> Levels, limit |-> 1] :
        lg \in EngineTexts}

\* configurations that lack a precondition or whose rule text is rejected,
\* explored with a value stored for X wherever it can be
PoorConfigs ==
    {[s |-> SettingsRow(ex, lg, <<>>), tfs |-> Levels, limit |-> MaxBars] :
        ex \in BOOLEAN, lg \in {<<>>, Ln_Blank \o NL, Ln_GtElse}}
    \cup
    {[s |-> SettingsRow(TRUE, lg, b), tfs |-> tf, limit |-> MaxBars] :
        lg \in {Ln_GtElse, Ln_NoThen}, b \in {<<>>, <<0>>, <<2>>},
        tf \in {{}, {1}, {2}}}
    \cup
    {[s |-> SettingsRow(TRUE, Txt_PrevNeq, <<>>), tfs |-> Levels, limit |-> MaxBars]}

\* no cursor is being driven
NoCursor == [cur |-> SeriesCursor(<<>>, <<>>), op |-> "none", arg |-> 0, got |-> None]

\* the parts of the state that the engine's calls leave alone, at rest
\* no monitor has been created, no worker either
NoMonitor == <<>>

NoIngest == <<>>

ApartIdle == cursor = NoCursor /\ monitor = NoMonitor /\ ingest = NoIngest

StoreInit ==
    \E c \in RichConfigs \cup PoorConfigs, dfs \in SUBSET Names,
       S1 \in BarTimeSets, S2 \in BarTimeSets :
      \E x1 \in [S1 -> XChoices(1)], x2 \in [S2 -> XChoices(2)] :
        /\ 1 \in c.tfs \/ S1 = {}
        /\ 2 \in c.tfs \/ S2 = {}
        /\ \/ NameX \in dfs /\ c \in RichConfigs
           \/ (\A t \in S1 : x1[t] = "val") /\ (\A t \in S2 : x2[t] = "val")
        /\ settings = c.s
        /\ timeframes = c.tfs
        /\ definitions = dfs
        /\ limit_bars = c.limit
        /\ bars = {BarRow(1, t) : t \in S1} \cup {BarRow(2, t) : t \in S2}
        /\ indicator_values = RowsOf(1, S1, x1, dfs) \cup RowsOf(2, S2, x2, dfs)

Init ==
    /\ StoreInit
    /\ run = [r \in RunIds |-> IdleRun]
    /\ text = <<>>
    /\ parsed = NotParsed
    /\ signal_events = <<>>
    /\ saved = [r \in RunIds |-> 0]
    /\ ApartIdle

\* ------------------------------------------------------------------------
\* Queries of generate_signals_for_system
\* ------------------------------------------------------------------------

\* order_by: the rows of S in ascending order of key, keys being distinct
SortBy(S, key(_)) ==
    [k \in 1..Cardinality(S) |->
        CHOOSE x \in S : Cardinality({y \in S : key(y) < key(x)}) = k - 1]

Reverse(q) == [k \in 1..Len(q) |-> q[Len(q) + 1 - k]]

\* q[:n]
Take(q, n) == SubSeq(q, 1, IF n < Len(q) THEN n ELSE Len(q))

BarDt(b) == b.dt

BarOf(bar_id) == CHOOSE b \in bars : b.id = bar_id

ValueDt(iv) == BarOf(iv.bar).dt

\* btime: getattr(b, 'dt_server', None) or b.dt
btime(b) == IF b.dt_server # <<>> THEN b.dt_server[1] ELSE b.dt

\* settings.signal_base_tf_level or 1
BaseLevel == LevelOr(settings.signal_base_tf_level, 1)

\* base_tf without the filter on the level
base_tf_any(base_level) ==
    IF timeframes = {} THEN <<>>
    ELSE <<CHOOSE l \in timeframes : \A m \in timeframes : l <= m>>

\* TimeFrame.objects.filter(trading_system=system, level=base_level).first():
\* the timeframe (named by its level) or nothing
base_tf(base_level) == IF base_level \in timeframes THEN <<base_level>> ELSE <<>>

\* {(name, lvl or base_level)}
normalized_req(rules, base_level) ==
    {<<q[1], LevelOr(q[2], base_level)>> : q \in _collect_requirements(rules)}

\* defs with every referenced name taken as defined
defs_all(names) == names

\* the names of defs: the referenced names with an IndicatorDefinition row
defs(names) == names \cap definitions

\* the last limit_bars bars of the timeframe, in chronological order
LoadBars(tf) ==
    LET asc == SortBy({b \in bars : b.timeframe = tf}, BarDt)
        bars_desc == Take(Reverse(asc), limit_bars)
    IN  Reverse(bars_desc)

\* the SeriesCursor preloaded for (name, lvl)
LoadSeries(name, lvl) ==
    LET qs == SortBy({iv \in indicator_values :
                        /\ iv.indicator = name
                        /\ BarOf(iv.bar).timeframe = lvl
                        /\ lvl \in timeframes}, ValueDt)
    IN  SeriesCursor([k \in 1..Len(qs) |-> btime(BarOf(qs[k].bar))],
                     [k \in 1..Len(qs) |-> qs[k].value_int])

\* base_map: bar_id -> {name: value} over the window's bars
LoadBaseMap(window, names, tf) ==
    LET qs == {iv \in indicator_values :
                 /\ iv.indicator \in names
                 /\ BarOf(iv.bar).timeframe = tf
                 /\ \E k \in DOMAIN window : window[k].id = iv.bar}
    IN  [bid \in {iv.bar : iv \in qs} |->
            [n \in {iv.indicator : iv \in {x \in qs : x.bar = bid}} |->
                (CHOOSE iv \in qs : iv.bar = bid /\ iv.indicator = n).value_int]]

\* curvals.get(n) with curvals = base_map.get(b.id, {})
CurVal(base_map, bar_id, n) ==
    IF bar_id \in DOMAIN base_map /\ n \in DOMAIN base_map[bar_id]
    THEN base_map[bar_id][n] ELSE None

\* InitialEvents with one list shared by the runs
InitialEvents_Shared(r) == IF r > 1 THEN run[r - 1].events ELSE <<>>

\* events: List[SignalEvent] = [] of run r
InitialEvents(r) == <<>>

Returned(r) == [IdleRun EXCEPT !.pc = "returned", !.events = InitialEvents(r)]

Raised(exc) == [IdleRun EXCEPT !.pc = "raised", !.exc = exc]

\* the run from the check of defs on: returned with no events or ready to
\* visit the first bar
SetupLoaded(r, rules, base_level, tf, nreq, names, window) ==
    IF defs(names) = {}
    THEN [Returned(r) EXCEPT !.rules = rules, !.base_level = base_level,
                             !.base_tf = tf, !.names = names]
    ELSE IF window = <<>>
    THEN [Returned(r) EXCEPT !.rules = rules, !.base_level = base_level,
                             !.base_tf = tf, !.names = names]
    ELSE [pc |-> "loop", exc |-> "", rules |-> rules,
          base_level |-> base_level, base_tf |-> tf, names |-> names,
          window |-> window,
          series |-> [q \in {x \in nreq : x[1] \in defs(names)} |->
                         LoadSeries(q[1], q[2])],
          base_map |-> LoadBaseMap(window, names, tf[1]),
          base_hist |-> [n \in names |-> <<>>],
          pos |-> 0, events |-> InitialEvents(r), log |-> <<>>]

\* the run from the lookup of the base timeframe on, nreq being the
\* normalized requirements of the rules
SetupRules(r, rules, base_level, tf, nreq) ==
    IF tf = <<>>
    THEN [Returned(r) EXCEPT !.rules = rules, !.base_level = base_level]
    ELSE SetupLoaded(r, rules, base_level, tf, nreq, {q[1] : q \in nreq},
                     LoadBars(tf[1]))

\* the run after rules = parse_rules(...), pr being the outcome of the parse
SetupParsed(r, pr) ==
    IF pr.exc # "" THEN Raised(pr.exc)
    ELSE SetupRules(r, pr.rules, BaseLevel, base_tf(BaseLevel),
                    normalized_req(pr.rules, BaseLevel))

\* the run after the code before the bar loop: returned with no events,
\* ended by the parser's exception, or ready to visit the first bar
Setup(r) ==
    IF ~settings.exists THEN Returned(r)
    ELSE IF settings.signal_logic = <<>> THEN Returned(r)
    ELSE SetupParsed(r, parse_rules(settings.signal_logic))

\* ChooseAction with the ELSE action ignored
ChooseAction_ElseIgnored(rule, ok) == IF ok THEN rule.action_then ELSE "NONE"

\* r.action_then if ok else (r.action_else or 'NONE')
ChooseAction(rule, ok) ==
    IF ok THEN rule.action_then
    ELSE IF rule.action_else = "None" THEN "NONE" ELSE rule.action_else

SignalEvent(tf, b, direction, rule) ==
    [timeframe |-> tf, bar |-> b.id, direction |-> direction,
     rule_text |-> RuleStr(rule), event_time |-> btime(b)]

\* _eval(r.condition, env_get) of each rule for the bar, in rule order
BarEvals(rules, base_level, base_hist, series) ==
    [k \in DOMAIN rules |-> _eval(rules[k].condition, base_level, base_hist, series)]

\* the action each rule chooses for the bar, in rule order
BarActions(rules, evals) ==
    [k \in DOMAIN rules |-> ChooseAction(rules[k], Truthy(evals[k]))]

\* BarEvents stopping at the first rule that fires
RECURSIVE BarEvents_FirstMatch(_, _, _, _, _)
BarEvents_FirstMatch(rules, acts, tf, b, k) ==
    IF k > Len(rules) THEN <<>>
    ELSE IF acts[k] \in {"BUY", "SELL"}
         THEN <<[timeframe |-> tf, bar |-> b.id, direction |-> acts[k],
                 rule_text |-> RuleStr(rules[k]), event_time |-> btime(b)]>>
         ELSE BarEvents_FirstMatch(rules, acts, tf, b, k + 1)

\* the events appended for bar b given the chosen actions
RECURSIVE BarEvents(_, _, _, _, _)
BarEvents(rules, acts, tf, b, k) ==
    IF k > Len(rules) THEN <<>>
    ELSE (IF acts[k] \in {"BUY", "SELL"}
          THEN <<SignalEvent(tf, b, acts[k], rules[k])>> ELSE <<>>)
         \o BarEvents(rules, acts, tf, b, k + 1)

\* ------------------------------------------------------------------------
\* Actions
\* ------------------------------------------------------------------------

Finished(r) == run[r].pc \in {"returned", "raised"}

\* the runs are made one after the other
Begin(r) ==
    /\ run[r].pc = "idle"
    /\ \A q \in RunIds : q < r => Finished(q)
    /\ run' = [run EXCEPT ![r] = Setup(r)]
    /\ UNCHANGED <<store, text, parsed, persisted, apart>>

\* Locals with the cursors and histories of the first call used by every call
Locals_Shared(r) ==
    [run[r] EXCEPT !.series = run[1].series, !.base_hist = run[1].base_hist]

\* the locals of call r: its rules, cursors, histories and events
Locals(r) == run[r]

\* an iteration of the bar loop that stays on the bar it has visited
AfterBar_Again(rec) ==
    Only({Only({Only({Only({Only({
        IF \E k \in DOMAIN evals : Raises(evals[k])
        THEN Raised("TypeError")
        ELSE [rec EXCEPT !.series = series,
                         !.base_hist = base_hist,
                         !.pos = IF rec.pos = 0 THEN 1 ELSE rec.pos,
                         !.events = rec.events \o
                             BarEvents(rec.rules, acts, rec.base_tf[1], b, 1),
                         !.log = Append(rec.log, acts)]
      : acts \in {BarActions(rec.rules, evals)}})
      : evals \in {BarEvals(rec.rules, rec.base_level, base_hist, series)}})
      : base_hist \in {[n \in DOMAIN rec.base_hist |->
                           Append(rec.base_hist[n], CurVal(rec.base_map, b.id, n))]}})
      : series \in {[q \in DOMAIN rec.series |->
                        advance_to(rec.series[q], btime(b))]}})
      : b \in {rec.window[IF rec.pos = 0 THEN 1 ELSE rec.pos]}})

\* one iteration of "for b in bars" on the locals rec of a call
AfterBar(rec) ==
    Only({Only({Only({Only({Only({
        IF \E k \in DOMAIN evals : Raises(evals[k])
        THEN Raised("TypeError")
        ELSE [rec EXCEPT !.series = series,
                         !.base_hist = base_hist,
                         !.pos = rec.pos + 1,
                         !.events = rec.events \o
                             BarEvents(rec.rules, acts, rec.base_tf[1], b, 1),
                         !.log = Append(rec.log, acts)]
      : acts \in {BarActions(rec.rules, evals)}})
      : evals \in {BarEvals(rec.rules, rec.base_level, base_hist, series)}})
      : base_hist \in {[n \in DOMAIN rec.base_hist |->
                           Append(rec.base_hist[n], CurVal(rec.base_map, b.id, n))]}})
      : series \in {[q \in DOMAIN rec.series |->
                        advance_to(rec.series[q], btime(b))]}})
      : b \in {rec.window[rec.pos + 1]}})

EvalBar(r) ==
    /\ run[r].pc = "loop"
    /\ run[r].pos < Len(run[r].window)
    /\ \E rec \in {Locals(r)} : run' = [run EXCEPT ![r] = AfterBar(rec)]
    /\ UNCHANGED <<store, text, parsed, persisted, apart>>

\* return events
Return(r) ==
    /\ run[r].pc = "loop"
    /\ run[r].pos = Len(run[r].window)
    /\ run' = [run EXCEPT ![r].pc = "returned"]
    /\ UNCHANGED <<store, text, parsed, persisted, apart>>

Next == \E r \in RunIds : Begin(r) \/ EvalBar(r) \/ Return(r)

Spec == Init /\ [][Next]_vars

\* ------------------------------------------------------------------------
\* Calls made at the same time
\* ------------------------------------------------------------------------

\* a call of generate_signals_for_system starts whatever the other calls do
BeginAny(r) ==
    /\ run[r].pc = "idle"
    /\ run' = [run EXCEPT ![r] = Setup(r)]
    /\ UNCHANGED <<store, text, parsed, persisted, apart>>

\* the steps of the calls interleave
NextConc == \E r \in RunIds : BeginAny(r) \/ EvalBar(r) \/ Return(r)

\* the systems called at the same time: the first rule set, and a rule text
\* that the parser rejects
InitConc ==
    /\ Init
    /\ settings.signal_logic \in {Txt_X, Ln_NoThen}
    /\ timeframes = Levels

SpecConc == InitConc /\ [][NextConc]_vars

\* ------------------------------------------------------------------------
\* parse_rules on its own
\* ------------------------------------------------------------------------

CatalogueLines ==
    { Ln_GtElse, Ln_Changed, Ln_PrevNeq, Ln_Lag1Neq, Ln_L2Ge, Ln_L2Lag,
      Ln_YOrX, Ln_PrevL2, Ln_NoThen, Ln_Dot, Ln_Blank }

\* the texts of n lines, each line ended by a line end
RECURSIVE TextsOf(_)
TextsOf(n) ==
    IF n = 0 THEN {<<>>}
    ELSE {t \o ln \o NL : t \in TextsOf(n - 1), ln \in CatalogueLines}

ParseTexts == UNION {TextsOf(n) : n \in 0..MaxLines}

InitParse ==
    /\ settings = SettingsRow(FALSE, <<>>, <<>>)
    /\ timeframes = {}
    /\ definitions = {}
    /\ bars = {}
    /\ indicator_values = {}
    /\ limit_bars = 1
    /\ run = [r \in RunIds |-> IdleRun]
    /\ text \in ParseTexts
    /\ parsed = NotParsed
    /\ signal_events = <<>>
    /\ saved = [r \in RunIds |-> 0]
    /\ ApartIdle

ParseText ==
    /\ parsed = NotParsed
    /\ parsed' = parse_rules(text)
    /\ UNCHANGED <<store, run, text, persisted, apart>>

NextParse == ParseText

SpecParse == InitParse /\ [][NextParse]_vars

\* ------------------------------------------------------------------------
\* parse_rule and parse_value on their own
\* ------------------------------------------------------------------------

\* the largest level and the largest lag written in the generated references
MaxLevel == 2

MaxLag == 2

Idents ==
    {<<"A">>, <<"B">>, <<"x","1">>, <<"_","a">>, <<"N","O","T","A">>, <<"L","x">>,
     <<"C","H","A","N","G","E","D","X">>, <<"P","R","E","V","I","O","U","S">>,
     <<"n","o","t","e">>}

\* an optional level or lag: nothing written, or the number written
OptUpTo(n) == {<<>>} \cup {<<k>> : k \in 0..n}

\* ident, ident[Lk], ident[Lk][n] and ident[n]
ValueText(id, lvl, lag) ==
    id \o (IF lvl = <<>> THEN <<>> ELSE <<"[","L">> \o IntStr(lvl[1]) \o <<"]">>)
       \o (IF lag = <<>> THEN <<>> ELSE <<"[">> \o IntStr(lag[1]) \o <<"]">>)

ValueInputs ==
    {ValueText(id, lvl, lag) : id \in Idents, lvl \in OptUpTo(MaxLevel),
                               lag \in OptUpTo(MaxLag)}

\* IF PREV(x) THEN SELL ELSE BUY and IF PREV(x, n) THEN SELL ELSE BUY, x a
\* reference text and n the optional lag argument
PrevLine(x, n) ==
    <<"I","F"," ","P","R","E","V","(">> \o x \o
    (IF n = <<>> THEN <<>> ELSE <<","," ">> \o IntStr(n[1])) \o
    <<")"," ","T","H","E","N"," ","S","E","L","L"," ","E","L","S","E"," ","B","U","Y">>

\* IF CHANGED(x) THEN SELL
ChangedLine(x) ==
    <<"I","F"," ","C","H","A","N","G","E","D","(">> \o x \o
    <<")"," ","T","H","E","N"," ","S","E","L","L">>

\* the references given to PREV and CHANGED: X and X[L2], without a lag and
\* with each written lag
FuncArgs ==
    {ValueText(NameX, lvl, lag) : lvl \in {<<2>>}, lag \in OptUpTo(MaxLag)}
    \cup {NameX}

PrevLines == {PrevLine(x, n) : x \in FuncArgs, n \in {<<>>, <<1>>, <<2>>}}

ChangedLines == {ChangedLine(x) : x \in FuncArgs}

\* IF A > 5 THEN BUY
Ex_A5 ==
    <<"I","F"," ","A"," ",">"," ","5"," ","T","H","E","N"," ","B","U","Y">>

\* IF A[L2][1] > B THEN SELL ELSE NONE
Ex_AL2 ==
    <<"I","F"," ","A","[","L","2","]","[","1","]"," ",">"," ","B"," ","T","H",
      "E","N"," ","S","E","L","L"," ","E","L","S","E"," ","N","O","N","E">>

\* IF A > 5 THEN BUY XYZ
Ln_TrailWord ==
    <<"I","F"," ","A"," ",">"," ","5"," ","T","H","E","N"," ","B","U","Y"," ",
      "X","Y","Z">>

\* IF A > 5 THEN BUYER
Ln_Buyer ==
    <<"I","F"," ","A"," ",">"," ","5"," ","T","H","E","N"," ","B","U","Y","E",
      "R">>

\* IF A > 5 THEN BUY ELSE SELL 1
Ln_TrailElse ==
    <<"I","F"," ","A"," ",">"," ","5"," ","T","H","E","N"," ","B","U","Y"," ",
      "E","L","S","E"," ","S","E","L","L"," ","1">>

\* IF A > 5 THEN BUY  
Ln_TrailSpace ==
    <<"I","F"," ","A"," ",">"," ","5"," ","T","H","E","N"," ","B","U","Y"," ",
      " ">>

\* IF PREV(5) THEN BUY
Ln_PrevNum ==
    <<"I","F"," ","P","R","E","V","(","5",")"," ","T","H","E","N"," ","B","U",
      "Y">>

\* IF CHANGED(5) THEN BUY
Ln_ChangedNum ==
    <<"I","F"," ","C","H","A","N","G","E","D","(","5",")"," ","T","H","E","N",
      " ","B","U","Y">>

\* IF X
Ln_IdentEnd ==
    <<"I","F"," ","X">>

\* IF X[L1][.] > 1 THEN BUY
Ln_DotLag ==
    <<"I","F"," ","X","[","L","1","]","[",".","]"," ",">"," ","1"," ","T","H",
      "E","N"," ","B","U","Y">>

\* X > 1 THEN BUY
Ln_NoIf ==
    <<"X"," ",">"," ","1"," ","T","H","E","N"," ","B","U","Y">>

\* IF X > 1 THEN HOLD
Ln_BadAction ==
    <<"I","F"," ","X"," ",">"," ","1"," ","T","H","E","N"," ","H","O","L",
      "D">>

\* rule lines as sequences of tokens of the grammar
Punct(c) == <<c>>

T_Changed ==
    <<W_IF, W_CHANGED, Punct("("), NameX, Punct(")"), W_THEN, W_SELL>>

T_Prev ==
    <<W_IF, W_PREV, Punct("("), NameX, Punct("["), W_L, Punct("2"), Punct("]"),
      Punct(","), Punct("2"), Punct(")"), W_THEN, W_SELL, W_ELSE, W_BUY>>

T_Level ==
    <<W_IF, NameX, Punct("["), W_L, Punct("2"), Punct("]"), Punct("["),
      Punct("1"), Punct("]"), <<">","=">>, Punct("1"), W_AND, W_NOT, NameY,
      <<"!","=">>, Punct("0"), W_THEN, W_BUY>>

T_Paren ==
    <<W_IF, Punct("("), NameX, Punct(">"), Punct("0"), W_OR, NameY, Punct("<"),
      Punct("1"), Punct(")"), W_THEN, W_BUY, W_ELSE, W_NONE>>

TokenLines == {T_Changed, T_Prev, T_Level, T_Paren}

\* what the line as usually written has between two adjacent tokens: nothing
\* next to a bracket, a parenthesis or a comma and after the L of a level,
\* one space elsewhere
Glue(a, b) ==
    IF b \in {Punct("("), Punct(")"), Punct("["), Punct("]"), Punct(",")}
       \/ a \in {Punct("("), Punct("["), W_L}
    THEN <<>> ELSE <<" ">>

\* the tokens from the k-th on written out, with one more space after the
\* g-th token (g = 0: the line as usually written)
RECURSIVE JoinFrom(_, _, _)
JoinFrom(toks, k, g) ==
    IF k = Len(toks) THEN toks[k]
    ELSE toks[k] \o Glue(toks[k], toks[k + 1]) \o
         (IF k = g THEN <<" ">> ELSE <<>>) \o JoinFrom(toks, k + 1, g)

JoinToks(toks, g) == JoinFrom(toks, 1, g)

SpacedLines == UNION {{JoinToks(t, g) : g \in 0..(Len(t) - 1)} : t \in TokenLines}

\* IF ident > 0 THEN BUY
IdentLine(id) ==
    <<"I","F"," ">> \o id \o <<" ",">"," ","0"," ","T","H","E","N"," ","B","U","Y">>

IdentLines == {IdentLine(id) : id \in Idents}

RuleInputs ==
    {Ex_A5, Ex_AL2, Ln_TrailWord, Ln_Buyer, Ln_TrailElse, Ln_TrailSpace,
     Ln_PrevNum, Ln_ChangedNum, Ln_IdentEnd, Ln_DotLag, Ln_NoIf, Ln_BadAction}
    \cup CatalogueLines \cup PrevLines \cup ChangedLines \cup SpacedLines
    \cup IdentLines

InitRule ==
    /\ settings = SettingsRow(FALSE, <<>>, <<>>)
    /\ timeframes = {}
    /\ definitions = {}
    /\ bars = {}
    /\ indicator_values = {}
    /\ limit_bars = 1
    /\ run = [r \in RunIds |-> IdleRun]
    /\ text \in RuleInputs \cup ValueInputs
    /\ parsed = NotParsed
    /\ signal_events = <<>>
    /\ saved = [r \in RunIds |-> 0]
    /\ ApartIdle

\* parse_rule(line) on a rule line
ParseRule ==
    /\ parsed = NotParsed
    /\ text \in RuleInputs
    /\ parsed' = [fn |-> "parse_rule", out |-> parse_rule(text)]
    /\ UNCHANGED <<store, run, text, persisted, apart>>

\* parse_value(Lexer(text)) on a reference text
ParseValue ==
    /\ parsed = NotParsed
    /\ text \in ValueInputs
    /\ parsed' = [fn |-> "parse_value", out |-> parse_value(text, 0)]
    /\ UNCHANGED <<store, run, text, persisted, apart>>

NextRule == ParseRule \/ ParseValue

SpecRule == InitRule /\ [][NextRule]_vars

\* ------------------------------------------------------------------------
\* Saving the events (preview_signals --save, admin generate_signals_now)
\* ------------------------------------------------------------------------

\* the fields of unique_together, the one trading system left out
EventKey(e) == <<e.timeframe, e.event_time, e.direction>>

\* save_event with every candidate inserted as a new row
save_event_insert(rows, ev) == Append(rows, ev)

\* one turn of "for ev in events": get_or_create on the key with rule_text
\* and bar as defaults, then the back-fill of a null bar of the row found
save_event(rows, ev) ==
    IF \E i \in DOMAIN rows : EventKey(rows[i]) = EventKey(ev)
    THEN [i \in DOMAIN rows |->
             IF EventKey(rows[i]) = EventKey(ev) /\ rows[i].bar = <<>> /\ ev.bar # <<>>
             THEN [rows[i] EXCEPT !.bar = ev.bar]
             ELSE rows[i]]
    ELSE Append(rows, ev)

\* every event of the run went through the save loop
SaveDone(r) == saved[r] = Len(run[r].events)

\* one turn of the save loop of the handler that made run r
SaveStep(r) ==
    /\ run[r].pc = "returned"
    /\ saved[r] < Len(run[r].events)
    /\ signal_events' = save_event(signal_events, run[r].events[saved[r] + 1])
    /\ saved' = [saved EXCEPT ![r] = saved[r] + 1]
    /\ UNCHANGED <<store, run, text, parsed, apart>>

\* the primary key of the bar that a re-import creates in the place of a
\* deleted one
NewId(id) == <<id[1], id[2], "reimported">>

\* import_datafile on the file of timeframe lvl, imported before: the bars
\* of the file are deleted (SignalEvent.bar is SET_NULL) and created again
\* with dt_server = dt, with their indicator values; no handler is between
\* its run and the end of its save loop
Reimport(lvl) ==
    /\ lvl \in timeframes
    /\ \E b \in bars : b.timeframe = lvl /\ Len(b.id) = 2
    /\ \A r \in RunIds : run[r].pc \in {"idle", "raised"}
                            \/ (run[r].pc = "returned" /\ SaveDone(r))
    /\ bars' = {IF b.timeframe = lvl
                THEN [b EXCEPT !.id = NewId(b.id), !.dt_server = <<b.dt>>]
                ELSE b : b \in bars}
    /\ indicator_values' = {IF iv.bar[1] = lvl
                            THEN [iv EXCEPT !.bar = NewId(iv.bar)]
                            ELSE iv : iv \in indicator_values}
    /\ signal_events' = [i \in DOMAIN signal_events |->
                            IF signal_events[i].bar # <<>> /\ signal_events[i].bar[1] = lvl
                            THEN [signal_events[i] EXCEPT !.bar = <<>>]
                            ELSE signal_events[i]]
    /\ UNCHANGED <<settings, timeframes, definitions, limit_bars, run, text,
                   parsed, saved, apart>>

\* the systems whose events are saved: the first rule set with every
\* indicator defined
InitSave ==
    /\ Init
    /\ settings.signal_logic = Txt_X
    /\ definitions = Names
    /\ limit_bars = MaxBars

NextSave ==
    \/ \E r \in RunIds : Begin(r) \/ EvalBar(r) \/ Return(r) \/ SaveStep(r)
    \/ \E lvl \in Levels : Reimport(lvl)

SpecSave == InitSave /\ [][NextSave]_vars

\* ------------------------------------------------------------------------
\* A SeriesCursor on its own
\* ------------------------------------------------------------------------

\* at most MaxSeries entries in the series of a cursor driven on its own
MaxSeries == 3

\* the stamps a series can carry, in the order the query returned them (the
\* rows are ordered by bar dt, the stamps are dt_server where it is set)
RECURSIVE StampSeqs(_)
StampSeqs(n) ==
    IF n = 0 THEN {<<>>}
    ELSE {Append(q, t) : q \in StampSeqs(n - 1), t \in Times}

\* the arguments given to advance_to: the stamps, and one before and after
CursorArgs == {0} \cup Times \cup {4}

\* the lags given to value
CursorLags == (0 - 1)..MaxSeries

\* the engine's own state at rest
EngineIdle ==
    /\ settings = SettingsRow(FALSE, <<>>, <<>>)
    /\ timeframes = {}
    /\ definitions = {}
    /\ bars = {}
    /\ indicator_values = {}
    /\ limit_bars = 1
    /\ run = [r \in RunIds |-> IdleRun]
    /\ text = <<>>
    /\ parsed = NotParsed
    /\ signal_events = <<>>
    /\ saved = [r \in RunIds |-> 0]

InitCursor ==
    /\ EngineIdle
    /\ monitor = NoMonitor
    /\ ingest = NoIngest
    /\ \E n \in 0..MaxSeries : \E times \in StampSeqs(n) :
          cursor = [cur |-> SeriesCursor(times, [k \in 1..n |-> Int2Val(k)]),
                    op |-> "new", arg |-> 0, got |-> None]

\* cur.advance_to(t)
AdvanceTo(t) ==
    /\ cursor' = [cur |-> advance_to(cursor.cur, t), op |-> "advance_to",
                  arg |-> t, got |-> None]
    /\ UNCHANGED <<store, run, text, parsed, persisted, monitor, ingest>>

\* cur.value(lag)
ReadValue(lag) ==
    /\ cursor' = [cur |-> cursor.cur, op |-> "value", arg |-> lag,
                  got |-> value(cursor.cur, lag)]
    /\ UNCHANGED <<store, run, text, parsed, persisted, monitor, ingest>>

NextCursor ==
    \/ \E t \in CursorArgs : AdvanceTo(t)
    \/ \E lag \in CursorLags : ReadValue(lag)

SpecCursor == InitCursor /\ [][NextCursor]_vars

\* ------------------------------------------------------------------------
\* parse_expr on its own
\* ------------------------------------------------------------------------

\* A > 1
F_Gt == <<"A"," ",">"," ","1">>

\* NOT B < 2
F_Not == <<"N","O","T"," ","B"," ","<"," ","2">>

\* (A > 1 OR B < 2)
F_Paren == <<"(","A"," ",">"," ","1"," ","O","R"," ","B"," ","<"," ","2",")">>

\* CHANGED(A)
F_Changed == <<"C","H","A","N","G","E","D","(","A",")">>

\* B >= A[L2][1]
F_Ref == <<"B"," ",">","="," ","A","[","L","2","]","[","1","]">>

\* the factor texts: a comparison, a negation, a parenthesised expression, a
\* function call and a comparison of two references
Factors == {F_Gt, F_Not, F_Paren, F_Changed, F_Ref}

Sp == <<" ">>

\* a OR b AND c
OrAndText(a, b, c) == a \o Sp \o W_OR \o Sp \o b \o Sp \o W_AND \o Sp \o c

\* a AND b OR c
AndOrText(a, b, c) == a \o Sp \o W_AND \o Sp \o b \o Sp \o W_OR \o Sp \o c

\* a OR b OR c
OrOrText(a, b, c) == a \o Sp \o W_OR \o Sp \o b \o Sp \o W_OR \o Sp \o c

\* NOT a AND b
NotAndText(a, b) == W_NOT \o Sp \o a \o Sp \o W_AND \o Sp \o b

\* (a OR b) AND c
ParenAndText(a, b, c) ==
    <<"(">> \o a \o Sp \o W_OR \o Sp \o b \o <<")">> \o Sp \o W_AND \o Sp \o c

\* a OR b
OrText(a, b) == a \o Sp \o W_OR \o Sp \o b

\* (a OR b)
ParenText(a, b) == <<"(">> \o OrText(a, b) \o <<")">>

ExprInputs ==
    {OrAndText(a, b, c) : a \in Factors, b \in Factors, c \in Factors}
    \cup {AndOrText(a, b, c) : a \in Factors, b \in Factors, c \in Factors}
    \cup {OrOrText(a, b, c) : a \in Factors, b \in Factors, c \in Factors}
    \cup {ParenAndText(a, b, c) : a \in Factors, b \in Factors, c \in Factors}
    \cup {NotAndText(a, b) : a \in Factors, b \in Factors}
    \cup {OrText(a, b) : a \in Factors, b \in Factors}
    \cup {ParenText(a, b) : a \in Factors, b \in Factors}

InitExpr ==
    /\ settings = SettingsRow(FALSE, <<>>, <<>>)
    /\ timeframes = {}
    /\ definitions = {}
    /\ bars = {}
    /\ indicator_values = {}
    /\ limit_bars = 1
    /\ run = [r \in RunIds |-> IdleRun]
    /\ text \in ExprInputs \cup Factors
    /\ parsed = NotParsed
    /\ signal_events = <<>>
    /\ saved = [r \in RunIds |-> 0]
    /\ ApartIdle

\* parse_expr(Lexer(text))
ParseExpr ==
    /\ parsed = NotParsed
    /\ text \in ExprInputs
    /\ parsed' = [fn |-> "parse_expr", out |-> parse_expr(text, 0)]
    /\ UNCHANGED <<store, run, text, persisted, apart>>

\* parse_factor(Lexer(text))
ParseFactor ==
    /\ parsed = NotParsed
    /\ text \in Factors
    /\ parsed' = [fn |-> "parse_factor", out |-> parse_factor(text, 0)]
    /\ UNCHANGED <<store, run, text, persisted, apart>>

NextExpr == ParseExpr \/ ParseFactor

SpecExpr == InitExpr /\ [][NextExpr]_vars

\* ------------------------------------------------------------------------
\* Calls that run to their end
\* ------------------------------------------------------------------------

\* a call of parse_rule on a line, or calls of the engine on a stored system
InitTerm == Init \/ InitRule

NextTerm == Next \/ NextRule

\* a call that has started goes on: the parser's call returns or raises,
\* and the bar loop of each run takes its next iteration or returns
SpecTerm ==
    /\ InitTerm
    /\ [][NextTerm]_vars
    /\ WF_vars(NextRule)
    /\ \A r \in RunIds : WF_vars(EvalBar(r) \/ Return(r))

\* ------------------------------------------------------------------------
\* MT5 connection monitor (services/mt5_monitor.py)
\* ------------------------------------------------------------------------

\* at most MaxThreads monitoring threads are created over a behaviour
MaxThreads == 2

\* MT5MonitoringSettings.max_reconnect_attempts
MaxReconnect == 2

\* the active MT5ConnectionSettings rows, visited in this order
Conns == <<1, 2>>

ThreadIds == 1..MaxThreads

\* the monitor after __init__, no thread created; key -1 of
\* reconnect_attempts stands for an absent key. since counts, per connection,
\* the reconnection attempts made after the last success; overlapped records
\* that a thread was started while another had not ended.
NewMonitor(enabled, auto) ==
    [monitoring_active |-> FALSE,
     monitor_thread |-> 0,
     loops |-> [t \in ThreadIds |-> [pc |-> "unborn", conn |-> 0]],
     reconnect_attempts |-> [c \in DOMAIN Conns |-> 0 - 1],
     since |-> [c \in DOMAIN Conns |-> 0],
     overlapped |-> FALSE,
     monitoring_enabled |-> enabled,
     auto_reconnect_enabled |-> auto,
     caller |-> "idle",
     last |-> "init"]

InitMonitor ==
    /\ EngineIdle
    /\ cursor = NoCursor
    /\ ingest = NoIngest
    /\ \E enabled \in BOOLEAN, auto \in BOOLEAN : monitor = NewMonitor(enabled, auto)

\* Thread.is_alive()
IsAlive(t) == monitor.loops[t].pc \notin {"unborn", "done"}

\* the threads started so far
Created == {t \in ThreadIds : monitor.loops[t].pc # "unborn"}

\* the threads running _monitoring_loop
Running == {t \in ThreadIds : IsAlive(t)}

MonitorFrame == UNCHANGED <<store, run, text, parsed, persisted, cursor, ingest>>

\* start_monitoring()
start_monitoring ==
    IF monitor.monitoring_active
    THEN [monitor EXCEPT !.last = "already_active"]
    ELSE IF ~monitor.monitoring_enabled
    THEN [monitor EXCEPT !.last = "disabled"]
    ELSE [monitor EXCEPT !.monitoring_active = TRUE,
                         !.monitor_thread = Cardinality(Created) + 1,
                         !.loops[Cardinality(Created) + 1] = [pc |-> "test", conn |-> 0],
                         !.overlapped = @ \/ Running # {},
                         !.last = "started"]

StartMonitoring ==
    /\ monitor.caller = "idle"
    /\ Cardinality(Created) < MaxThreads
    /\ monitor' = start_monitoring
    /\ MonitorFrame

\* stop_monitoring() up to the join
StopMonitoring ==
    /\ monitor.caller = "idle"
    /\ monitor' = [monitor EXCEPT
                      !.monitoring_active = FALSE,
                      !.caller = IF monitor.monitor_thread # 0
                                    /\ IsAlive(monitor.monitor_thread)
                                 THEN "joining" ELSE "idle",
                      !.last = "stopped"]
    /\ MonitorFrame

\* join(timeout=5) returns because the thread has ended
JoinEnds ==
    /\ monitor.caller = "joining"
    /\ ~IsAlive(monitor.monitor_thread)
    /\ monitor' = [monitor EXCEPT !.caller = "idle"]
    /\ MonitorFrame

\* join(timeout=5) returns after 5 seconds while the thread is in
\* time.sleep(health_check_interval)
JoinTimesOut ==
    /\ monitor.caller = "joining"
    /\ monitor.loops[monitor.monitor_thread].pc = "sleep"
    /\ monitor' = [monitor EXCEPT !.caller = "idle", !.last = "join_timeout"]
    /\ MonitorFrame

\* the monitoring settings are edited: monitoring_enabled is switched
SetEnabled ==
    /\ monitor' = [monitor EXCEPT !.monitoring_enabled = ~@]
    /\ MonitorFrame

\* while self.monitoring_active
LoopTest(t) ==
    /\ monitor.loops[t].pc = "test"
    /\ monitor' = [monitor EXCEPT !.loops[t].pc =
                      IF monitor.monitoring_active THEN "refresh" ELSE "exit"]
    /\ MonitorFrame

\* the settings are refreshed; the loop breaks when monitoring is disabled,
\* else it turns to the first active connection
Refresh(t) ==
    /\ monitor.loops[t].pc = "refresh"
    /\ monitor' = IF ~monitor.monitoring_enabled
                  THEN [monitor EXCEPT !.loops[t].pc = "exit"]
                  ELSE [monitor EXCEPT !.loops[t] = [pc |-> "health", conn |-> 1]]
    /\ MonitorFrame

\* the thread's position after the health check of its connection: the next
\* connection, or the sleep after the last one
NextConn(lp) ==
    IF lp.conn < Len(Conns) THEN [pc |-> "health", conn |-> lp.conn + 1]
    ELSE [pc |-> "sleep", conn |-> 0]

\* _check_connection_health up to the call of _attempt_reconnection, ok being
\* the outcome of service.connect()
CheckHealth(t, ok) ==
    /\ monitor.loops[t].pc = "health"
    /\ \E c \in {monitor.loops[t].conn} :
          monitor' =
            IF ok
            THEN [monitor EXCEPT !.reconnect_attempts[c] = 0,
                                 !.since[c] = 0,
                                 !.loops[t] = NextConn(monitor.loops[t])]
            ELSE IF monitor.auto_reconnect_enabled
            THEN [monitor EXCEPT !.loops[t].pc = "limit"]
            ELSE [monitor EXCEPT !.loops[t] = NextConn(monitor.loops[t])]
    /\ MonitorFrame

\* reconnect_attempts[connection_id] after "if connection_id not in ..."
AttemptsOf(c) ==
    IF monitor.reconnect_attempts[c] < 0 THEN 0 ELSE monitor.reconnect_attempts[c]

\* if self.reconnect_attempts[connection_id] >= max_reconnect_attempts
AtLimit(c) == AttemptsOf(c) >= MaxReconnect

\* _attempt_reconnection: the key is initialised and the limit is tested
TestLimit(t) ==
    /\ monitor.loops[t].pc = "limit"
    /\ \E c \in {monitor.loops[t].conn} :
          monitor' =
            IF AtLimit(c)
            THEN [monitor EXCEPT !.reconnect_attempts[c] = AttemptsOf(c),
                                 !.loops[t] = NextConn(monitor.loops[t])]
            ELSE [monitor EXCEPT !.reconnect_attempts[c] = AttemptsOf(c),
                                 !.loops[t].pc = "incr"]
    /\ MonitorFrame

\* self.reconnect_attempts[connection_id] += 1
Increment(t) ==
    /\ monitor.loops[t].pc = "incr"
    /\ \E c \in {monitor.loops[t].conn} :
          monitor' = [monitor EXCEPT !.reconnect_attempts[c] = @ + 1,
                                     !.since[c] = @ + 1,
                                     !.loops[t].pc = "connect"]
    /\ MonitorFrame

\* the reconnection, ok being the outcome of service.connect()
Reconnect(t, ok) ==
    /\ monitor.loops[t].pc = "connect"
    /\ \E c \in {monitor.loops[t].conn} :
          monitor' =
            IF ok
            THEN [monitor EXCEPT !.reconnect_attempts[c] = 0,
                                 !.since[c] = 0,
                                 !.loops[t] = NextConn(monitor.loops[t])]
            ELSE [monitor EXCEPT !.loops[t] = NextConn(monitor.loops[t])]
    /\ MonitorFrame

\* time.sleep(health_check_interval) ends
Wake(t) ==
    /\ monitor.loops[t].pc = "sleep"
    /\ monitor' = [monitor EXCEPT !.loops[t].pc = "test"]
    /\ MonitorFrame

\* after the loop: self.monitoring_active = False, and the thread ends
LoopExit(t) ==
    /\ monitor.loops[t].pc = "exit"
    /\ monitor' = [monitor EXCEPT !.monitoring_active = FALSE,
                                  !.loops[t].pc = "done"]
    /\ MonitorFrame

NextMonitor ==
    \/ StartMonitoring
    \/ StopMonitoring
    \/ JoinEnds
    \/ JoinTimesOut
    \/ SetEnabled
    \/ \E t \in ThreadIds :
          \/ LoopTest(t)
          \/ Refresh(t)
          \/ \E ok \in BOOLEAN : CheckHealth(t, ok)
          \/ TestLimit(t)
          \/ Increment(t)
          \/ \E ok \in BOOLEAN : Reconnect(t, ok)
          \/ Wake(t)
          \/ LoopExit(t)

SpecMonitor == InitMonitor /\ [][NextMonitor]_vars

\* ------------------------------------------------------------------------
\* Data ingestion worker (services/ingestion_worker.py)
\* ------------------------------------------------------------------------

\* the data files, in the order DataFile.objects.all() returns their rows
Files == <<1, 2>>

\* modification times are counted in half seconds and go up to MaxMtime; 0
\* stands for a file that is not on disk and for a null file_modified
MaxMtime == 4

\* abs(st_mtime - file_modified) > 0.5, in half seconds
Tolerance == 1

\* a DataFile row
DataFileRow(exists, status, file_modified) ==
    [exists |-> exists, status |-> status, file_modified |-> file_modified]

NoRow == DataFileRow(FALSE, "", 0)

\* the rows a file can have when the worker starts: none, a pending row
\* without or with the recorded time, a completed row with the recorded time
StartRows == {NoRow, DataFileRow(TRUE, "pending", 0),
              DataFileRow(TRUE, "pending", 2), DataFileRow(TRUE, "completed", 2)}

\* the worker before its first cycle. disk: mtime of each file; sysactive:
\* whether the file's trading system is active; last_error: the saved
\* DataIngestionStatus.last_error; status_error: last_error of the status
\* object the cycle holds; failed: an import raised in this cycle; last: the
\* file checked last and what was done with it
NewWorker(disk, sysactive, rows) ==
    [pc |-> "top", k |-> 0,
     disk |-> disk, sysactive |-> sysactive, rows |-> rows,
     last_error |-> "", status_error |-> "", failed |-> FALSE,
     last |-> [f |-> 0, action |-> "none"]]

InitIngest ==
    /\ EngineIdle
    /\ cursor = NoCursor
    /\ monitor = NoMonitor
    /\ \E disk \in [DOMAIN Files -> {0, 2}], sysactive \in [DOMAIN Files -> BOOLEAN],
          rows \in [DOMAIN Files -> StartRows] :
          ingest = NewWorker(disk, sysactive, rows)

IngestFrame == UNCHANGED <<store, run, text, parsed, persisted, cursor, monitor>>

\* the file is written: its mtime moves on by half a second or by a second
Touch(f, d) ==
    /\ ingest.disk[f] # 0
    /\ ingest.disk[f] + d <= MaxMtime
    /\ ingest' = [ingest EXCEPT !.disk[f] = @ + d]
    /\ IngestFrame

\* status = DataIngestionStatus.get() at the top of a cycle
BeginCycle ==
    /\ ingest.pc = "top"
    /\ ingest' = [ingest EXCEPT !.pc = "collect",
                                !.status_error = ingest.last_error,
                                !.failed = FALSE]
    /\ IngestFrame

\* collect_for_system on the row of one file found in the directory
collect_row(row, mtime) ==
    IF ~row.exists THEN DataFileRow(TRUE, "pending", mtime)
    ELSE IF row.file_modified # mtime THEN DataFileRow(TRUE, "pending", mtime)
    ELSE row

\* step 1 of the cycle: collect_for_system for every active system; when it
\* raises, the cycle ends in the outer handler, which saves the error
Collect(ok) ==
    /\ ingest.pc = "collect"
    /\ ingest' =
         IF ok
         THEN [ingest EXCEPT
                 !.pc = "files", !.k = 1,
                 !.rows = [f \in DOMAIN Files |->
                             IF ingest.sysactive[f] /\ ingest.disk[f] # 0
                             THEN collect_row(ingest.rows[f], ingest.disk[f])
                             ELSE ingest.rows[f]]]
         ELSE [ingest EXCEPT !.pc = "sleep", !.k = 0,
                             !.status_error = "error", !.last_error = "error"]
    /\ IngestFrame

\* mtime_changed
mtime_changed(row, mtime) ==
    \/ row.file_modified = 0
    \/ mtime - row.file_modified > Tolerance
    \/ row.file_modified - mtime > Tolerance

\* the test before import_datafile
needs_import(row, mtime) == row.status # "completed" \/ mtime_changed(row, mtime)

\* the position after the k-th file
AfterFile(k) == IF k < Len(Files) THEN [pc |-> "files", k |-> k + 1]
                ELSE [pc |-> "finish", k |-> 0]

\* step 2 of the cycle for the k-th DataFile row, ok being whether
\* import_datafile returns (it then marks the row completed) or raises
CheckFile(ok) ==
    /\ ingest.pc = "files"
    /\ \E k \in {ingest.k} : \E nxt \in {AfterFile(k)} :
          ingest' =
            IF ~ingest.rows[k].exists
            THEN [ingest EXCEPT !.pc = nxt.pc, !.k = nxt.k,
                                !.last = [f |-> k, action |-> "norow"]]
            ELSE IF ingest.disk[k] = 0
            THEN [ingest EXCEPT !.pc = nxt.pc, !.k = nxt.k,
                                !.last = [f |-> k, action |-> "skipped"]]
            ELSE IF ~needs_import(ingest.rows[k], ingest.disk[k])
            THEN [ingest EXCEPT !.pc = nxt.pc, !.k = nxt.k,
                                !.last = [f |-> k, action |-> "no_change"]]
            ELSE IF ok
            THEN [ingest EXCEPT !.pc = nxt.pc, !.k = nxt.k,
                                !.rows[k].status = "completed",
                                !.last = [f |-> k, action |-> "imported"]]
            ELSE [ingest EXCEPT !.pc = nxt.pc, !.k = nxt.k,
                                !.status_error = "error",
                                !.failed = TRUE,
                                !.last = [f |-> k, action |-> "error"]]
    /\ IngestFrame

\* status.last_error = '' before status.save()
finish_error == ""

\* the end of the cycle: the counters are added, last_error is set and the
\* status is saved
FinishCycle ==
    /\ ingest.pc = "finish"
    /\ ingest' = [ingest EXCEPT !.pc = "sleep",
                                !.status_error = finish_error,
                                !.last_error = finish_error]
    /\ IngestFrame

\* time.sleep(interval) ends
SleepEnds ==
    /\ ingest.pc = "sleep"
    /\ ingest' = [ingest EXCEPT !.pc = "top"]
    /\ IngestFrame

NextIngest ==
    \/ \E f \in DOMAIN Files, d \in {1, 2} : Touch(f, d)
    \/ BeginCycle
    \/ \E ok \in BOOLEAN : Collect(ok)
    \/ \E ok \in BOOLEAN : CheckFile(ok)
    \/ FinishCycle
    \/ SleepEnds

SpecIngest == InitIngest /\ [][NextIngest]_vars

\* ------------------------------------------------------------------------
\* Properties
\* ------------------------------------------------------------------------

\* the runs whose state is that of the bar loop after at least one bar
AtBar(r) == run[r].pc \in {"loop", "returned"} /\ run[r].pos >= 1

\* the bar a run evaluated last, and its reference time
LastBar(r) == run[r].window[run[r].pos]

\* the first line of the text that parse_rule rejects, 0 when there is none
FirstBadLine(lines) ==
    IF \A k \in DOMAIN lines : parse_rule(lines[k]).exc = "" THEN 0
    ELSE CHOOSE k \in DOMAIN lines :
            /\ parse_rule(lines[k]).exc # ""
            /\ \A j \in 1..(k - 1) : parse_rule(lines[j]).exc = ""

\* the catalogue lines that are not rules of the grammar: THEN is missing, or
\* a lone "." stands where a value is expected
MalformedLines == {Ln_NoThen, Ln_Dot}

\* C1: parsing a rule set is all-or-nothing. For every rule-set text in which
\* some non-blank line is malformed, parse_rules raises the syntax error
\* (ParseError) and returns no rule, whatever well-formed lines precede or
\* follow the malformed one.
C1_MalformedRaisesSyntaxError ==
    (parsed # NotParsed /\ \E k \in DOMAIN RuleLines(text) :
                              RuleLines(text)[k] \in MalformedLines) =>
        /\ parsed.exc = "ParseError"
        /\ parsed.rules = <<>>

\* what parse_rules does do: when parse_rule rejects some non-blank line it
\* ends with the exception of the first such line and returns no rule; when
\* no line is rejected it returns one rule per non-blank line
ParseRulesAllOrNothing ==
    parsed # NotParsed =>
        LET lines == RuleLines(text)
            bad == FirstBadLine(lines)
        IN  IF bad = 0
            THEN parsed.exc = "" /\ Len(parsed.rules) = Len(lines)
            ELSE /\ parsed.exc = parse_rule(lines[bad]).exc
                 /\ parsed.exc # ""
                 /\ parsed.rules = <<>>

\* the Compare nodes below a node
RECURSIVE CompareNodes(_)
CompareNodes(node) ==
    CASE node.t = "Compare" -> {node}
      [] node.t \in {"And", "Or"} -> CompareNodes(node.left) \cup CompareNodes(node.right)
      [] node.t = "Not" -> CompareNodes(node.expr)
      [] OTHER -> {}

RunCompares(r) ==
    UNION {CompareNodes(run[r].rules[k].condition) : k \in DOMAIN run[r].rules}

EvalAt(r, node) == _eval(node, run[r].base_level, run[r].base_hist, run[r].series)

OperandMissing(r, c) == EvalAt(r, c.left) = None \/ EvalAt(r, c.right) = None

AllOps == {CmpOps[k] : k \in DOMAIN CmpOps}

\* C2: at every bar, a Compare node of the rules with a missing left or right
\* operand evaluates to false and does not raise, with each of the six
\* operators in the place of its own.
C2_MissingComparesFalse ==
    \A r \in RunIds : AtBar(r) =>
        \A c \in RunCompares(r) : OperandMissing(r, c) =>
            \A op \in AllOps : EvalAt(r, [c EXCEPT !.op = op]) = Bool2Val(FALSE)

\* C2 witness: a bar where a comparison with != has a missing operand and
\* another comparison of the rules has both operands
C2_Witness ==
    \E r \in RunIds : AtBar(r) /\
        \E c1, c2 \in RunCompares(r) :
            /\ OperandMissing(r, c1) /\ c1.op = <<"!","=">>
            /\ ~OperandMissing(r, c2) /\ EvalAt(r, c2) = Bool2Val(TRUE)

\* the non-base (name, level) pairs of a run that have a cursor
NonBaseKeys(r) == {q \in DOMAIN run[r].series : q[2] # run[r].base_level}

Ascending(q) == \A i, j \in DOMAIN q : i < j => q[i] <= q[j]

WindowTimes(r) == [k \in DOMAIN run[r].window |-> btime(run[r].window[k])]

\* the entries of a cursor with a timestamp <= t
UpTo(cur, t) == {i \in DOMAIN cur.times : cur.times[i] <= t}

MaxOf(S) == CHOOSE x \in S : \A y \in S : y <= x

\* C3: as-of join. For a time-ordered non-base series and ascending base
\* bars, once the cursors are advanced to a bar with reference time T, the
\* lag-0 read of the series is the value of its last entry with timestamp <= T,
\* and missing when it has no such entry.
C3_AsOfJoin ==
    \A r \in RunIds : AtBar(r) =>
        \A q \in NonBaseKeys(r) :
            LET cur == run[r].series[q]
                T == btime(LastBar(r))
                read == env_get(run[r].base_level, run[r].base_hist, run[r].series,
                                q[1], <<q[2]>>, 0)
            IN  (Ascending(cur.times) /\ Ascending(WindowTimes(r))) =>
                    /\ UpTo(cur, T) = {} => read = None /\ cur.idx = -1
                    /\ UpTo(cur, T) # {} =>
                          /\ read = cur.values[MaxOf(UpTo(cur, T))]
                          /\ cur.idx + 1 = MaxOf(UpTo(cur, T))

\* C3 witness: the second bar of a window reads the second entry of a series
\* after the first bar read the first one: t1 <= T1 < t2 <= T2
C3_Witness ==
    \E r \in RunIds : AtBar(r) /\ run[r].pos = 2 /\
        \E q \in NonBaseKeys(r) :
            LET cur == run[r].series[q] IN
            /\ Len(cur.times) = 2
            /\ cur.times[1] <= btime(run[r].window[1])
            /\ btime(run[r].window[1]) < cur.times[2]
            /\ cur.times[2] <= btime(run[r].window[2])
            /\ cur.values[1] # cur.values[2]
            /\ cur.idx = 1

\* a cursor whose values are the positions of its entries
Tagged(cur) == [cur EXCEPT !.values = [k \in DOMAIN cur.times |-> Int2Val(k)]]

\* C4: no look-ahead. At a base bar with reference time T, the entry that a
\* non-base reference of any lag >= 0 reads has a timestamp <= T.
C4_NoLookAhead ==
    \A r \in RunIds : AtBar(r) =>
        \A q \in NonBaseKeys(r) :
            LET cur == run[r].series[q]
                tagged == [k \in DOMAIN run[r].series |-> Tagged(run[r].series[k])]
            IN  \A lag \in 0..Len(cur.times) :
                    LET read == env_get(run[r].base_level, run[r].base_hist, tagged,
                                        q[1], <<q[2]>>, lag)
                    IN  read # None => cur.times[read.n] <= btime(LastBar(r))

\* C4 witness: a bar is evaluated while a series holds an entry later than the
\* bar and an entry that a lag-1 read reaches
C4_Witness ==
    \E r \in RunIds : AtBar(r) /\
        \E q \in NonBaseKeys(r) :
            LET cur == run[r].series[q] IN
            /\ \E i \in DOMAIN cur.times : cur.times[i] > btime(LastBar(r))
            /\ cur.idx >= 0
            /\ run[r].pc = "loop"

\* the rule of a well-formed line
RuleOf(line) == parse_rule(line).rule

\* no value is stored for the indicator on the bar
NotStored(name, bar_id) ==
    ~\E iv \in indicator_values :
        iv.bar = bar_id /\ iv.indicator = name /\ iv.value_int # None

\* C5: action selection. For every rule and bar the chosen action is the THEN
\* action when the condition is true, otherwise the ELSE action, NONE when the
\* rule has no ELSE; and "IF X > 0 THEN BUY ELSE SELL" on a bar with no value
\* stored for X at the base level emits a SELL event for that bar.
C5_ActionSelection ==
    \A r \in RunIds : AtBar(r) =>
        \A k \in DOMAIN run[r].rules :
            LET rule == run[r].rules[k]
                ok == Truthy(EvalAt(r, rule.condition))
                act == run[r].log[run[r].pos][k]
            IN  /\ ok => act = rule.action_then
                /\ ~ok /\ rule.action_else = "None" => act = "NONE"
                /\ ~ok /\ rule.action_else # "None" => act = rule.action_else
                /\ (rule = RuleOf(Ln_GtElse) /\ NotStored(NameX, LastBar(r).id)) =>
                      \E j \in DOMAIN run[r].events :
                          /\ run[r].events[j].bar = LastBar(r).id
                          /\ run[r].events[j].direction = "SELL"
                          /\ run[r].events[j].rule_text = RuleStr(rule)

\* C5 witness: the rule with ELSE SELL was evaluated on a bar with no value
\* stored for X and on a bar where X > 0
C5_Witness ==
    \E r \in RunIds : AtBar(r) /\ run[r].pos = 2 /\
        /\ run[r].rules[1] = RuleOf(Ln_GtElse)
        /\ NotStored(NameX, LastBar(r).id)
        /\ run[r].log[2][1] = "SELL"
        /\ run[r].log[1][1] = "BUY"

\* the (bar position, rule position) pairs of a run that chose BUY or SELL
Firing(r) ==
    {pk \in (1..run[r].pos) \X DOMAIN run[r].rules :
        run[r].log[pk[1]][pk[2]] \in {"BUY", "SELL"}}

\* the place of a firing pair in bar order, then rule order
Rank(r, pk) ==
    1 + Cardinality({q \in Firing(r) :
                        q[1] < pk[1] \/ (q[1] = pk[1] /\ q[2] < pk[2])})

\* C6: emission. Each (bar, rule) pair gives one candidate event when its
\* action is BUY or SELL and none when it is NONE; the events are in bar order
\* and, within a bar, in rule order, at most bars x rules of them, each BUY or
\* SELL.
C6_Emission ==
    \A r \in RunIds : run[r].pc \in {"loop", "returned"} =>
        /\ Len(run[r].log) = run[r].pos
        /\ Len(run[r].events) = Cardinality(Firing(r))
        /\ Len(run[r].events) <= run[r].pos * Len(run[r].rules)
        /\ \A pk \in Firing(r) :
              LET e == run[r].events[Rank(r, pk)] IN
              /\ e.bar = run[r].window[pk[1]].id
              /\ e.event_time = btime(run[r].window[pk[1]])
              /\ e.direction = run[r].log[pk[1]][pk[2]]
              /\ e.rule_text = RuleStr(run[r].rules[pk[2]])
              /\ e.timeframe = run[r].base_level
        /\ \A j \in DOMAIN run[r].events : run[r].events[j].direction \in {"BUY", "SELL"}

\* C6 witness: a returned run with two events on one bar, an event on another
\* bar and a rule that chose NONE
C6_Witness ==
    \E r \in RunIds :
        /\ run[r].pc = "returned"
        /\ \E i, j \in DOMAIN run[r].events :
              i < j /\ run[r].events[i].bar = run[r].events[j].bar
        /\ \E i, j \in DOMAIN run[r].events :
              run[r].events[i].bar # run[r].events[j].bar
        /\ \E p \in DOMAIN run[r].log, k \in DOMAIN run[r].rules :
              run[r].log[p][k] = "NONE"

C8_ChangedSameAsPrevNeq ==
    \A r \in RunIds : (settings.signal_logic = Txt_PrevNeq /\ Finished(r)) =>
        /\ run[r].pc = "returned"
        /\ \A p \in DOMAIN run[r].log : run[r].log[p][1] = run[r].log[p][2]

\* the indicator names the parsed rule set of a run refers to
ReferencedNames(r) == {q[1] : q \in _collect_requirements(run[r].rules)}

UniqueRows ==
    \A i, j \in DOMAIN signal_events :
        i # j => EventKey(signal_events[i]) # EventKey(signal_events[j])

\* the rows of the table whose key is that of the candidate
RowsWithKey(ev) == {i \in DOMAIN signal_events : EventKey(signal_events[i]) = EventKey(ev)}

\* a step leaves every row in its place with its key and its rule_text, and
\* changes a bar reference only from or to null; a turn of a save loop
\* creates the candidate's row when no row has its key, and otherwise
\* creates nothing and gives the candidate's bar to the row found when that
\* row had none
KeptStep ==
    /\ \A i \in DOMAIN signal_events :
          /\ i \in DOMAIN signal_events'
          /\ EventKey(signal_events'[i]) = EventKey(signal_events[i])
          /\ signal_events'[i].rule_text = signal_events[i].rule_text
          /\ signal_events'[i].bar # signal_events[i].bar =>
                signal_events[i].bar = <<>> \/ signal_events'[i].bar = <<>>
    /\ \A r \in RunIds : saved'[r] # saved[r] =>
          LET ev == run[r].events[saved[r] + 1] IN
          IF RowsWithKey(ev) = {}
          THEN signal_events' = Append(signal_events, ev)
          ELSE /\ Len(signal_events') = Len(signal_events)
               /\ \A i \in DOMAIN signal_events :
                     signal_events'[i].bar =
                        IF i \in RowsWithKey(ev) /\ signal_events[i].bar = <<>>
                        THEN ev.bar ELSE signal_events[i].bar

\* C11: persisted uniqueness. After any sequence of saves, repeated saves and
\* several rules firing the same direction on a bar included, the table has
\* at most one row per (timeframe, event_time, direction); on a conflict the
\* first-written row stays with its rule_text, and its bar reference is
\* filled in only when it was null, never by a second row.
C11_PersistedUniqueness == [](UniqueRows) /\ [][KeptStep]_vars

\* C11 witness: both handlers saved all their events, the first one before a
\* re-import and the second one after it; two candidates of the first had one
\* key, and a row created by the first carries a bar of the re-import
C11_Witness ==
    /\ \A r \in RunIds : run[r].pc = "returned" /\ SaveDone(r)
    /\ Len(signal_events) < Len(run[1].events)
    /\ \E i \in DOMAIN signal_events, j \in DOMAIN run[1].events :
          /\ EventKey(run[1].events[j]) = EventKey(signal_events[i])
          /\ Len(run[1].events[j].bar) = 2
          /\ Len(signal_events[i].bar) = 3

\* the call carried on to its end from the locals rec
RECURSIVE RunToEnd(_)
RunToEnd(rec) ==
    IF rec.pc # "loop" THEN rec
    ELSE IF rec.pos = Len(rec.window) THEN [rec EXCEPT !.pc = "returned"]
    ELSE Only({RunToEnd(nxt) : nxt \in {AfterBar(rec)}})

\* the call made over the same stored data with the one rule as its rule set
SoloRun(r, rule) ==
    RunToEnd(SetupRules(r, <<rule>>, BaseLevel, base_tf(BaseLevel),
                        normalized_req(<<rule>>, BaseLevel)))

\* the bars on which the k-th rule of a call emitted, with the direction
Emitted(rec, k) ==
    {<<rec.window[p].id, rec.log[p][k]>> :
        p \in {q \in DOMAIN rec.log : rec.log[q][k] \in {"BUY", "SELL"}}}

\* C12: rule independence. The bars on which a rule emits, and the directions,
\* are the same whether the rule is evaluated alone or together with the other
\* rules of the set.
C12_RuleIndependence ==
    \A r \in RunIds : run[r].pc = "returned" =>
        \A k \in DOMAIN run[r].rules :
            Emitted(run[r], k) = Emitted(SoloRun(r, run[r].rules[k]), 1)

\* what does hold: a rule that refers to some defined indicator emits alike
\* alone and with the others
RuleIndependenceWhenDefined ==
    \A r \in RunIds : run[r].pc = "returned" =>
        \A k \in DOMAIN run[r].rules :
            {q[1] : q \in visit(run[r].rules[k].condition)} \cap definitions # {} =>
                Emitted(run[r], k) = Emitted(SoloRun(r, run[r].rules[k]), 1)

\* the text was given to fn and the outcome is in parsed.out
Applied(fn) == parsed # NotParsed /\ parsed.fn = fn

RuleOutcome(rule) == [exc |-> "", msg |-> "", rule |-> rule]

\* C13: reference syntax. For every identifier and numbers k, n, "ident"
\* parses to IndicatorRef(ident, None, 0), "ident[Lk]" to level k and lag 0,
\* "ident[Lk][n]" to level k and lag n, and "ident[n]" is rejected with the
\* syntax error; "IF A > 5 THEN BUY" gives Rule(Compare(Ref(A, None, 0), '>',
\* 5), BUY, no else) and "IF A[L2][1] > B THEN SELL ELSE NONE" compares
\* Ref(A, 2, 1) with Ref(B, None, 0).
C13_ReferenceSyntax ==
    /\ \A id \in Idents, lvl \in OptUpTo(MaxLevel), lag \in OptUpTo(MaxLag) :
          (Applied("parse_value") /\ text = ValueText(id, lvl, lag)) =>
              IF lvl = <<>> /\ lag # <<>>
              THEN parsed.out.exc = "ParseError"
              ELSE parsed.out = Ok(Len(text),
                                   IndicatorRef(id, lvl,
                                                IF lag = <<>> THEN 0 ELSE lag[1]))
    /\ (Applied("parse_rule") /\ text = Ex_A5) =>
          parsed.out = RuleOutcome(Rule(Compare(IndicatorRef(<<"A">>, <<>>, 0),
                                                <<">">>, Literal(Int2Val(5))),
                                        "BUY", "None"))
    /\ (Applied("parse_rule") /\ text = Ex_AL2) =>
          parsed.out = RuleOutcome(Rule(Compare(IndicatorRef(<<"A">>, <<2>>, 1),
                                                <<">">>,
                                                IndicatorRef(<<"B">>, <<>>, 0)),
                                        "SELL", "NONE"))

\* C13 witness: a reference with a level bracket and a lag bracket was parsed
C13_Witness ==
    /\ Applied("parse_value")
    /\ text = ValueText(<<"x","1">>, <<2>>, <<1>>)
    /\ parsed.out.exc = ""
    /\ parsed.out.node.lag = 1

\* C14: whitespace is insignificant between tokens. For every well-formed rule
\* line, a space inserted between two adjacent tokens, also between CHANGED or
\* PREV and the "(" and between the L and the number of a level bracket, gives
\* a line that parses to the same AST.
C14_WhitespaceInsignificant ==
    \A t \in TokenLines : \A g \in 1..(Len(t) - 1) :
        (Applied("parse_rule") /\ text = JoinToks(t, g)) =>
            /\ parsed.out.exc = ""
            /\ parsed.out = parse_rule(JoinToks(t, 0))

\* what does hold: the lines as usually written are well-formed, and a space
\* inserted anywhere but after CHANGED, after PREV and after the L of a level
\* bracket leaves the AST as it is
WhitespaceElsewhere ==
    \A t \in TokenLines : \A g \in 0..(Len(t) - 1) :
        (Applied("parse_rule") /\ text = JoinToks(t, g)
            /\ (g = 0 \/ t[g] \notin {W_CHANGED, W_PREV, W_L})) =>
            /\ parsed.out.exc = ""
            /\ parsed.out = parse_rule(JoinToks(t, 0))

\* the number written in an optional place, dflt when nothing is written
Written(opt, dflt) == IF opt = <<>> THEN dflt ELSE opt[1]

\* C15: PREV increments the lag. For every reference x with written lag m and
\* every lag argument n (1 when omitted), PREV(x, n) is the reference to the
\* same name and level with lag m + n.
C15_PrevIncrementsLag ==
    \A lvl \in {<<>>, <<2>>}, lag \in OptUpTo(MaxLag), n \in {<<>>, <<1>>, <<2>>} :
        (Applied("parse_rule") /\ text = PrevLine(ValueText(NameX, lvl, lag), n)) =>
            /\ parsed.out.exc = ""
            /\ parsed.out.rule.condition =
                  IndicatorRef(NameX, lvl, Written(lag, 0) + Written(n, 1))

\* what does hold: PREV(x, n) is the reference to the name and level of x
\* with lag n, 1 when omitted, whatever lag is written in x
PrevSetsLag ==
    \A lvl \in {<<>>, <<2>>}, lag \in OptUpTo(MaxLag), n \in {<<>>, <<1>>, <<2>>} :
        (Applied("parse_rule") /\ text = PrevLine(ValueText(NameX, lvl, lag), n)) =>
            /\ parsed.out.exc = ""
            /\ parsed.out.rule.condition = IndicatorRef(NameX, lvl, Written(n, 1))

\* C16: CHANGED expansion. For every reference x of any level and any written
\* lag, CHANGED(x) parses to Compare(x one bar back (lag 1), '!=', x with
\* lag 0).
C16_ChangedExpansion ==
    \A lvl \in {<<>>, <<2>>}, lag \in OptUpTo(MaxLag) :
        (Applied("parse_rule") /\ text = ChangedLine(ValueText(NameX, lvl, lag))) =>
            /\ parsed.out.exc = ""
            /\ parsed.out.rule.condition =
                  Compare(IndicatorRef(NameX, lvl, 1), <<"!","=">>,
                          IndicatorRef(NameX, lvl, 0))

\* what does hold: the left reference of the expansion has the written lag
\* when that is 2 or more, and lag 1 otherwise
ChangedKeepsLargerLag ==
    \A lvl \in {<<>>, <<2>>}, lag \in OptUpTo(MaxLag) :
        (Applied("parse_rule") /\ text = ChangedLine(ValueText(NameX, lvl, lag))) =>
            /\ parsed.out.exc = ""
            /\ parsed.out.rule.condition =
                  Compare(IndicatorRef(NameX, lvl,
                                       IF Written(lag, 0) > 1 THEN Written(lag, 0) ELSE 1),
                          <<"!","=">>, IndicatorRef(NameX, lvl, 0))

\* rule lines with text left over after the THEN or the ELSE action
TrailingLines == {Ln_TrailWord, Ln_Buyer, Ln_TrailElse}

\* C17: whole-line grammar. parse_rule accepts a line only if the entire line
\* is derivable from IF expr THEN action (ELSE action)?; a line with text left
\* over after the THEN or ELSE action raises the syntax error.
C17_WholeLineGrammar ==
    (Applied("parse_rule") /\ text \in TrailingLines) =>
        parsed.out.exc = "ParseError"

\* what does hold: parse_rule stops reading after the action and returns the
\* rule of the line without the text left over
TrailingTextIgnored ==
    /\ (Applied("parse_rule") /\ text \in {Ln_TrailWord, Ln_Buyer, Ln_TrailSpace}) =>
          parsed.out = parse_rule(Ex_A5) /\ parsed.out.exc = ""
    /\ (Applied("parse_rule") /\ text = Ln_TrailElse) =>
          /\ parsed.out.exc = ""
          /\ parsed.out.rule = [parse_rule(Ex_A5).rule EXCEPT !.action_else = "SELL"]

\* C18: single error kind. For every input line parse_rule returns a Rule or
\* raises ParseError; no other exception type leaves the parser, also when the
\* number lexer consumes a lone "." or an identifier is followed by the end of
\* the input.
C18_OnlyParseError ==
    Applied("parse_rule") => parsed.out.exc \in {"", "ParseError"}

\* what does hold: the exceptions that leave parse_rule are ParseError,
\* ValueError (float() of dots alone) and AttributeError (PREV or CHANGED of
\* a number), and an identifier at the end of the input raises ParseError
ParserExceptions ==
    /\ Applied("parse_rule") =>
          parsed.out.exc \in {"", "ParseError", "ValueError", "AttributeError"}
    /\ (Applied("parse_rule") /\ text = Ln_IdentEnd) => parsed.out.exc = "ParseError"
    /\ (Applied("parse_rule") /\ text \in {Ln_Dot, Ln_DotLag}) =>
          parsed.out.exc = "ValueError"
    /\ (Applied("parse_rule") /\ text \in {Ln_PrevNum, Ln_ChangedNum}) =>
          parsed.out.exc = "AttributeError"

\* what call r keeps after its next step when it runs alone
AloneStep(r) ==
    IF run[r].pc = "idle" THEN Setup(r)
    ELSE IF run[r].pc = "loop" /\ run[r].pos < Len(run[r].window) THEN AfterBar(run[r])
    ELSE [run[r] EXCEPT !.pc = "returned"]

\* a step of a call changes the locals of that call only, and by what the
\* call does alone
IsolatedStep ==
    \A r \in RunIds : run'[r] # run[r] =>
        /\ \A q \in RunIds \ {r} : run'[q] = run[q]
        /\ run'[r] = AloneStep(r)

\* a call that ended, ended as the call made alone over the stored data
EndsAsAlone ==
    \A r \in RunIds : Finished(r) =>
        \E alone \in {RunToEnd(Setup(r))} :
            /\ run[r].pc = alone.pc
            /\ run[r].exc = alone.exc
            /\ run[r].events = alone.events

StoredValue(name, bar_id) ==
    IF \E iv \in indicator_values : iv.bar = bar_id /\ iv.indicator = name
    THEN (CHOOSE iv \in indicator_values :
             iv.bar = bar_id /\ iv.indicator = name).value_int
    ELSE None

\* the ways a base-level reference of a run names its level: none written,
\* the base level written, and level 0
BaseLevelForms(r) == {<<>>, <<run[r].base_level>>, <<0>>}

\* C20: base-level lag resolution. While the rules are evaluated for the bar
\* at window position p, a base-level reference with lag k resolves to the
\* value stored for the indicator on the bar at position p - k, and to missing
\* when p - k is before the first bar or that bar has no value; every base
\* history has length p + 1. (run[r].pos is p + 1.)
C20_BaseLagResolution ==
    \A r \in RunIds : AtBar(r) =>
        \A n \in run[r].names :
            /\ Len(run[r].base_hist[n]) = run[r].pos
            /\ \A k \in 0..(run[r].pos + 1), lvl \in BaseLevelForms(r) :
                  env_get(run[r].base_level, run[r].base_hist, run[r].series,
                          n, lvl, k) =
                     IF run[r].pos - k < 1 THEN None
                     ELSE StoredValue(n, run[r].window[run[r].pos - k].id)

\* C20 witness: at the second bar of a window the lag-1 read of X is the
\* value stored on the first bar, which differs from the value on the second,
\* and Y has no value on the first bar
C20_Witness ==
    \E r \in RunIds :
        /\ AtBar(r) /\ run[r].pos = 2 /\ run[r].pc = "loop"
        /\ run[r].names = Names
        /\ StoredValue(NameX, run[r].window[1].id) # None
        /\ StoredValue(NameX, run[r].window[2].id) # None
        /\ StoredValue(NameX, run[r].window[1].id) # StoredValue(NameX, run[r].window[2].id)
        /\ env_get(run[r].base_level, run[r].base_hist, run[r].series, NameX, <<>>, 1)
              = StoredValue(NameX, run[r].window[1].id)
        /\ StoredValue(NameY, run[r].window[1].id) = None

\* one call on the cursor: idx does not go down, and value leaves it alone
ForwardStep ==
    /\ cursor'.cur.idx >= cursor.cur.idx
    /\ cursor'.cur.times = cursor.cur.times
    /\ cursor'.op = "value" => cursor'.cur = cursor.cur

\* idx is -1 or the position of an entry
IdxInRange ==
    (0 - 1) <= cursor.cur.idx /\ cursor.cur.idx < Len(cursor.cur.times)

\* C21: forward-only cursor. For every series and every sequence of
\* advance_to and value calls with any arguments, idx never decreases, always
\* satisfies -1 <= idx < len(times), and value(lag) never changes idx.
C21_ForwardOnlyCursor == [](IdxInRange) /\ [][ForwardStep]_vars

\* C21 witness: a cursor that stands on its last entry after advance_to was
\* called with an argument smaller than the stamp it stands on
C21_Witness ==
    /\ cursor.op = "advance_to"
    /\ Len(cursor.cur.times) >= 2
    /\ cursor.cur.idx = Len(cursor.cur.times) - 1
    /\ cursor.arg < cursor.cur.times[cursor.cur.idx + 1]

\* over a run of the engine the cursors of the run only move forward
RunCursorsForward ==
    \A r \in RunIds :
        (run[r].pc = "loop" /\ run'[r].pc \in {"loop", "returned"}) =>
            \A key \in DOMAIN run[r].series :
                /\ key \in DOMAIN run'[r].series
                /\ run'[r].series[key].idx >= run[r].series[key].idx
                /\ run'[r].series[key].idx < Len(run[r].series[key].times)

RunCursorsForwardAlways == [][RunCursorsForward]_vars

\* the series of a run with the cursor of q moved to position idx
CursorAt(r, q, idx) ==
    [run[r].series EXCEPT ![q] = [run[r].series[q] EXCEPT !.idx = idx]]

\* C22: non-base lag resolution. At a base bar where the cursor of a non-base
\* series stands at idx, a reference to that series with lag k reads the
\* series entry at index idx - k (k entries of the series earlier), missing
\* when idx - k < 0; it is the lag-0 read at cursor position idx - k.
C22_NonBaseLagResolution ==
    \A r \in RunIds : AtBar(r) =>
        \A q \in NonBaseKeys(r) :
            LET cur == run[r].series[q] IN
            \A k \in 0..(Len(cur.times) + 1) :
                LET read == env_get(run[r].base_level, run[r].base_hist,
                                    run[r].series, q[1], <<q[2]>>, k)
                IN  /\ read = IF cur.idx - k < 0 THEN None
                              ELSE cur.values[cur.idx - k + 1]
                    /\ cur.idx - k >= 0 - 1 =>
                          read = env_get(run[r].base_level, run[r].base_hist,
                                         CursorAt(r, q, cur.idx - k), q[1], <<q[2]>>, 0)

\* C22 witness: at the second base bar a non-base cursor stands on its
\* second entry although the first base bar already saw both entries; lag 1
\* reads the first entry, which differs from the second, and lag 2 is missing
C22_Witness ==
    \E r \in RunIds : AtBar(r) /\ run[r].pos = 2 /\
        \E q \in NonBaseKeys(r) :
            LET cur == run[r].series[q] IN
            /\ cur.idx = 1
            /\ cur.times[2] <= btime(run[r].window[1])
            /\ cur.values[1] # None /\ cur.values[2] # None
            /\ cur.values[1] # cur.values[2]
            /\ env_get(run[r].base_level, run[r].base_hist, run[r].series,
                       q[1], <<q[2]>>, 1) = cur.values[1]
            /\ env_get(run[r].base_level, run[r].base_hist, run[r].series,
                       q[1], <<q[2]>>, 2) = None

\* the node that parse_factor gives for a factor text
FactorNode(a) == parse_factor(a, 0).node

\* parse_expr read the whole text and returned the node
ParsedTo(node) == Applied("parse_expr") /\ parsed.out = Ok(Len(text), node)

\* C23: operator precedence and associativity. For all factors a, b, c,
\* "a OR b AND c" parses to Or(a, And(b, c)), "a AND b OR c" to
\* Or(And(a, b), c), "a OR b OR c" to Or(Or(a, b), c), "NOT a AND b" to
\* And(Not(a), b), and a parenthesised expression parses to the node of its
\* content, alone and as a factor of an AND.
C23_Precedence ==
    Applied("parse_expr") =>
        \A a \in Factors, b \in Factors :
            /\ text = NotAndText(a, b) =>
                  ParsedTo(And(Not(FactorNode(a)), FactorNode(b)))
            /\ text = OrText(a, b) => ParsedTo(Or(FactorNode(a), FactorNode(b)))
            /\ text = ParenText(a, b) => ParsedTo(parse_expr(OrText(a, b), 0).node)
            /\ \A c \in Factors :
                  /\ text = OrAndText(a, b, c) =>
                        ParsedTo(Or(FactorNode(a), And(FactorNode(b), FactorNode(c))))
                  /\ text = AndOrText(a, b, c) =>
                        ParsedTo(Or(And(FactorNode(a), FactorNode(b)), FactorNode(c)))
                  /\ text = OrOrText(a, b, c) =>
                        ParsedTo(Or(Or(FactorNode(a), FactorNode(b)), FactorNode(c)))
                  /\ text = ParenAndText(a, b, c) =>
                        ParsedTo(And(parse_expr(OrText(a, b), 0).node, FactorNode(c)))

\* C23 witness: "NOT B < 2 OR CHANGED(A) AND (A > 1 OR B < 2)" was parsed to
\* an Or whose right side is an And
C23_Witness ==
    /\ Applied("parse_expr")
    /\ text = OrAndText(F_Not, F_Changed, F_Paren)
    /\ parsed.out.exc = ""
    /\ parsed.out.node.t = "Or"
    /\ parsed.out.node.left.t = "Not"
    /\ parsed.out.node.right.t = "And"
    /\ parsed.out.node.right.right.t = "Or"

\* a call of parser function p at position i of s that returns normally has
\* read at least one character and has not read past the end
Consumes(s, i, out) == out.exc = "" => (out.i > i /\ out.i <= Len(s))

\* the loops of parse_term and parse_expr entered at position i: an iteration
\* that takes its keyword ends after it, no iteration leaves the position
\* after the white space
LoopConsumes(s, i, out, tk) ==
    out.exc = "" => IF tk.ok THEN out.i > tk.i /\ tk.i > i
                    ELSE out.i = _skip_ws(s, i)

ParserProgress(s) ==
    \A i \in 0..Len(s) :
        /\ Consumes(s, i, parse_value(s, i))
        /\ Consumes(s, i, parse_factor(s, i))
        /\ Consumes(s, i, parse_term(s, i))
        /\ Consumes(s, i, parse_expr(s, i))
        /\ LoopConsumes(s, i, TermLoop(s, Ok(i, NoNode)),
                        take(s, _skip_ws(s, i), W_AND))
        /\ LoopConsumes(s, i, ExprLoop(s, Ok(i, NoNode)),
                        take(s, _skip_ws(s, i), W_OR))

\* the bar loop has visited the first pos bars of the window, once each, and
\* no cursor has been incremented more often than its series has entries
VisitedOnce ==
    \A r \in RunIds :
        /\ run[r].pos <= Len(run[r].window)
        /\ Len(run[r].log) = run[r].pos
        /\ \A n \in DOMAIN run[r].base_hist : Len(run[r].base_hist[n]) = run[r].pos
        /\ \A q \in DOMAIN run[r].series :
              run[r].series[q].idx + 1 <= Len(run[r].series[q].times)

\* a step of the bar loop visits the next bar, returns after the last bar, or
\* ends with an exception
LoopStep ==
    \A r \in RunIds :
        (run[r].pc = "loop" /\ run'[r] # run[r]) =>
            \/ /\ run'[r].pc = "loop"
               /\ run'[r].pos = run[r].pos + 1
               /\ run'[r].window = run[r].window
            \/ /\ run'[r].pc = "returned"
               /\ run'[r].pos = Len(run[r].window)
               /\ run[r].pos = Len(run[r].window)
            \/ run'[r].pc = "raised"

\* C24: termination. parse_rule ends on every line, each parser call and
\* loop iteration that returns normally having consumed at least one
\* character; generate_signals_for_system ends after visiting each bar of the
\* window exactly once, and the increments of each cursor are bounded by the
\* length of its series.
C24_Termination ==
    /\ [](Applied("parse_rule") => ParserProgress(text))
    /\ [](VisitedOnce)
    /\ [][LoopStep]_vars
    /\ (text \in RuleInputs) ~> Applied("parse_rule")
    /\ \A r \in RunIds : (run[r].pc = "loop") ~> Finished(r)

\* C24 witness: a run returned after a window of two bars, with a cursor that
\* was incremented once for each of its two entries
C24_Witness ==
    \E r \in RunIds :
        /\ run[r].pc = "returned"
        /\ Len(run[r].window) = 2 /\ run[r].pos = 2
        /\ \E q \in DOMAIN run[r].series :
              /\ Len(run[r].series[q].times) = 2
              /\ run[r].series[q].idx = 1

\* IF NOT X > 0 THEN BUY
Ln_NotGt ==
    <<"I","F"," ","N","O","T"," ","X"," ",">"," ","0"," ","T","H","E","N"," ",
      "B","U","Y">>

\* the call made over the same stored data with "IF NOT X > 0 THEN BUY" as the
\* rule set
NotGtRun(r) == SoloRun(r, parse_rule(Ln_NotGt).rule)

\* C25: negation of a missing comparison. On every bar, Not(c) is true for a
\* comparison c with a missing operand, whatever its operator; no comparison
\* is false together with its negation; and the rule "IF NOT X > 0 THEN BUY"
\* emits BUY on every bar it is evaluated on where X is missing.
C25_NotOfMissingIsTrue ==
    \A r \in RunIds : AtBar(r) =>
        /\ \A c \in RunCompares(r), op \in AllOps :
              LET cop == [c EXCEPT !.op = op] IN
              /\ OperandMissing(r, c) => EvalAt(r, Not(cop)) = Bool2Val(TRUE)
              /\ ~(EvalAt(r, cop) = Bool2Val(FALSE) /\ EvalAt(r, Not(cop)) = Bool2Val(FALSE))
        /\ run[r].pc = "returned" =>
              \E solo \in {NotGtRun(r)} :
                  \A p \in DOMAIN solo.log :
                      StoredValue(NameX, solo.window[p].id) = None =>
                          /\ solo.log[p][1] = "BUY"
                          /\ \E k \in DOMAIN solo.events :
                                /\ solo.events[k].bar = solo.window[p].id
                                /\ solo.events[k].direction = "BUY"

\* C25 witness: a run of two bars, X missing on one and positive on the other,
\* for which "IF NOT X > 0 THEN BUY" emits BUY on the first only, while a
\* comparison of the run's own rules has a missing operand
C25_Witness ==
    \E r \in RunIds :
        /\ run[r].pc = "returned" /\ run[r].pos = 2
        /\ \E c \in RunCompares(r) : OperandMissing(r, c)
        /\ \E solo \in {NotGtRun(r)} :
              /\ Len(solo.log) = 2
              /\ \E p, q \in DOMAIN solo.log :
                    /\ StoredValue(NameX, solo.window[p].id) = None
                    /\ solo.log[p][1] = "BUY"
                    /\ StoredValue(NameX, solo.window[q].id) = Int2Val(1)
                    /\ solo.log[q][1] = "NONE"

\* the rule that "IF ident > 0 THEN BUY" stands for
IdentRule(id) ==
    Rule(Compare(IndicatorRef(id, <<>>, 0), <<">">>, Literal(Int2Val(0))),
         "BUY", "None")

\* the identifier begins, in any case of letters, with a keyword that
\* parse_factor takes
KeywordPrefixed(id) ==
    \E w \in {W_NOT, W_CHANGED, W_PREV} : StartsWithUpper(id, 0, w)

\* C26: identifiers are kept whole. For every identifier, also one that begins
\* with NOT, CHANGED, PREV or L, "IF ident > 0 THEN BUY" parses to the rule
\* whose condition compares IndicatorRef(ident, None, 0) with 0; no keyword
\* prefix of an identifier is consumed and discarded.
C26_IdentifiersKeptWhole ==
    \A id \in Idents :
        (Applied("parse_rule") /\ text = IdentLine(id)) =>
            parsed.out = RuleOutcome(IdentRule(id))

\* what does hold: identifiers that do not begin with NOT, CHANGED or PREV
\* are kept whole, those that begin with L included
OtherIdentifiersKeptWhole ==
    \A id \in Idents :
        (Applied("parse_rule") /\ text = IdentLine(id) /\ ~KeywordPrefixed(id)) =>
            parsed.out = RuleOutcome(IdentRule(id))

\* the keyword prefix is dropped: NOTA is read as NOT A, CHANGEDX as X,
\* PREVIOUS as IOUS and note as NOT e
PrefixDropped ==
    /\ (Applied("parse_rule") /\ text = IdentLine(<<"N","O","T","A">>)) =>
          parsed.out = RuleOutcome([IdentRule(<<"A">>) EXCEPT
                          !.condition = Not(IdentRule(<<"A">>).condition)])
    /\ (Applied("parse_rule") /\ text = IdentLine(<<"n","o","t","e">>)) =>
          parsed.out = RuleOutcome([IdentRule(<<"e">>) EXCEPT
                          !.condition = Not(IdentRule(<<"e">>).condition)])
    /\ (Applied("parse_rule") /\ text = IdentLine(<<"C","H","A","N","G","E","D","X">>)) =>
          parsed.out = RuleOutcome(IdentRule(<<"X">>))
    /\ (Applied("parse_rule") /\ text = IdentLine(<<"P","R","E","V","I","O","U","S">>)) =>
          parsed.out = RuleOutcome(IdentRule(<<"I","O","U","S">>))

L26_Witness == Applied("parse_rule") /\ text = IdentLine(<<"L","x">>)

\* the reconnection counters stay within the limit, and so does the number of
\* attempts made since the last success
WithinLimit ==
    \A c \in DOMAIN Conns :
        /\ monitor.reconnect_attempts[c] <= MaxReconnect
        /\ monitor.since[c] <= MaxReconnect

\* a step that increments a counter finds it below the limit; a successful
\* health check or reconnection leaves it at 0
CounterStep ==
    \A c \in DOMAIN Conns :
        /\ monitor'.reconnect_attempts[c] > AttemptsOf(c) =>
              /\ monitor.reconnect_attempts[c] < MaxReconnect
              /\ monitor'.reconnect_attempts[c] = monitor.reconnect_attempts[c] + 1
        /\ (monitor'.since[c] = 0 /\ monitor.since[c] > 0) =>
              monitor'.reconnect_attempts[c] = 0

\* C27: bounded reconnection. For every connection, with max_reconnect_attempts
\* fixed, reconnect_attempts never exceeds the maximum, no reconnection is
\* attempted once the counter has reached it, every successful health check or
\* reconnection resets the counter to 0, and at most the maximum number of
\* attempts is made between two successes.
C27_BoundedReconnection == [](WithinLimit) /\ [][CounterStep]_vars

\* what does hold: as long as no monitoring thread was started while another
\* had not ended, the counters and the attempts stay within the limit
BoundedWithOneLoop == ~monitor.overlapped => WithinLimit

\* C28: single monitoring loop. After any sequence of start_monitoring and
\* stop_monitoring calls, a start right after a stop whose join timed out on
\* the sleeping loop thread included, at most one monitoring loop thread is
\* running.
C28_SingleMonitoringLoop == Cardinality(Running) <= 1

\* what does hold: a start while monitoring_active is set creates no thread
StartWhileActive ==
    (monitor.last # "already_active" /\ monitor'.last = "already_active") =>
        /\ monitor'.loops = monitor.loops
        /\ monitor'.monitor_thread = monitor.monitor_thread

StartWhileActiveCreatesNone == [][StartWhileActive]_vars

\* two loops run after stop, join timeout, start
TwoLoopsAfterRestart ==
    /\ Cardinality(Running) = 2
    /\ monitor.last = "started"
    /\ monitor.loops[1].pc = "sleep"

\* with one loop at a time every step on a counter is as claimed
CounterStepWithOneLoop == [][~monitor'.overlapped => CounterStep]_vars

\* the cycle has ended (the worker sleeps) after going through the files
CycleDone == ingest.pc = "sleep" /\ ingest.last.action # "none"

\* C29: ingestion error reporting. When the import of a file raises during a
\* scan cycle the worker records the error in last_error and goes on with the
\* remaining files, and last_error is cleared only when the cycle succeeded:
\* after a cycle in which an import failed the saved last_error is non-empty.
C29_IngestionErrorReported ==
    (ingest.pc = "sleep" /\ ingest.failed) => ingest.last_error # ""

\* what does hold: the failed import is recorded on the status object the
\* cycle holds, and the cycle goes on with the next file
FailedImportStep ==
    (ingest.pc = "files" /\ ingest'.last = [f |-> ingest.k, action |-> "error"]
        /\ ingest'.disk = ingest.disk /\ ingest' # ingest) =>
        /\ ingest'.status_error # ""
        /\ ingest'.last_error = ingest.last_error
        /\ IF ingest.k < Len(Files)
           THEN ingest'.pc = "files" /\ ingest'.k = ingest.k + 1
           ELSE ingest'.pc = "finish"

ErrorKeptUntilFinish == [][FailedImportStep]_vars

\* what does hold: every cycle that reaches its end saves an empty last_error,
\* failed imports or not
FinishClearsError ==
    (ingest.pc = "sleep" /\ ingest.last.action # "none" /\ ingest.status_error = "")
        => ingest.last_error = ""

\* a cycle ended with a failed import of the first file, an import of the
\* second, and an empty saved last_error
ErrorLost ==
    /\ ingest.pc = "sleep" /\ ingest.failed
    /\ ingest.last = [f |-> 2, action |-> "imported"]
    /\ ingest.last_error = ""

\* the step that checks the k-th row, the file being on disk
ChecksOnDisk ==
    /\ ingest.pc = "files"
    /\ ingest' # ingest
    /\ ingest'.last.f = ingest.k
    /\ ingest'.disk = ingest.disk
    /\ ingest.rows[ingest.k].exists
    /\ ingest.disk[ingest.k] # 0

\* import_datafile was called in the step
ImportCalled == ingest'.last.action \in {"imported", "error"}

\* the claim's condition: not completed, or the mtime on disk differs from
\* the recorded file_modified
ClaimedNeed(row, mtime) == row.status # "completed" \/ row.file_modified # mtime

\* the step of C30: imported if and only if needed; a failed import leaves the
\* row not completed; a completed, unmodified file is not imported
ChangeDrivenStep ==
    ChecksOnDisk =>
        /\ ImportCalled <=> ClaimedNeed(ingest.rows[ingest.k], ingest.disk[ingest.k])
        /\ ingest'.last.action = "error" =>
              ingest'.rows[ingest.k].status # "completed"

\* C30: change-driven import. In each scan cycle an existing DataFile is
\* imported if and only if its status is not 'completed' or its mtime on disk
\* differs from the recorded file_modified; a file whose import raised stays
\* not completed (and is so retried in the next cycle); a completed,
\* unmodified file is not imported again.
C30_ChangeDrivenImport == [][ChangeDrivenStep]_vars

\* what does hold: the import is called exactly when the row is not completed,
\* no time is recorded, or the times differ by more than half a second; a
\* completed file with the recorded mtime is never imported; a failed import
\* leaves the status as it was
ToleranceStep ==
    ChecksOnDisk =>
        /\ ImportCalled <=> needs_import(ingest.rows[ingest.k], ingest.disk[ingest.k])
        /\ ~ClaimedNeed(ingest.rows[ingest.k], ingest.disk[ingest.k]) => ~ImportCalled
        /\ ingest'.last.action = "error" =>
              ingest'.rows[ingest.k].status = ingest.rows[ingest.k].status

ImportWithTolerance == [][ToleranceStep]_vars

\* the row of a file of an active system that is on disk carries the file's
\* mtime and is not completed unless it carried it before, right after step 1
CollectorStep ==
    (ingest.pc = "collect" /\ ingest'.pc = "files") =>
        \A f \in DOMAIN Files :
            (ingest.sysactive[f] /\ ingest.disk[f] # 0) =>
                /\ ingest'.rows[f].exists
                /\ ingest'.rows[f].file_modified = ingest.disk[f]
                /\ (~ingest.rows[f].exists \/ ingest.rows[f].file_modified # ingest.disk[f])
                      => ingest'.rows[f].status = "pending"

CollectorResets == [][CollectorStep]_vars

\* a completed file written half a second after its recorded time was checked
\* and not imported
ChangeMissed ==
    \E f \in DOMAIN Files :
        /\ ingest.last = [f |-> f, action |-> "no_change"]
        /\ ingest.rows[f].status = "completed"
        /\ ingest.disk[f] = ingest.rows[f].file_modified + 1

====
